---------------------------- MODULE Spec2Model ----------------------------
(***************************************************************************)
(* magi-gui: the streaming bridge (StreamlitStreamingAdapter) and the      *)
(* application shell (run_app), as state machines.                         *)
(*                                                                         *)
(* The adapter's own code (streaming_adapter.py) is translated line by     *)
(* line.  QueueStreamingEmitter belongs to magi-core and is not part of    *)
(* the sources; its bounded queue, its per-chunk timeout, its consumption  *)
(* task and its aclose() are modelled from section 4.1 of the              *)
(* specification and are marked as such where they are defined.            *)
(***************************************************************************)
EXTENDS Integers, Sequences, FiniteSets, TLC

\* ------------------------------------------------------------------ bounds
\* Emitters one adapter may create (create_emitter has no guard of its own).
MaxEmitters == 2
\* Chunks the producer emits in one behaviour.
MaxEmit == 3
\* queue_size handed to the emitter (a constructor argument of the adapter).
QueueSize == 2
\* Chunks handed to _send_chunk directly in the history specifications.
MaxProcessed == 3
\* Files in the uploader.
MaxFiles == 2
\* Script runs with the button pressed.
MaxRuns == 2

\* ------------------------------------------------------------- text model
\* A phase name is a sequence of one-letter strings, so that str.lower()
\* is computed letter by letter instead of being assumed.
UpperToLower ==
  [A |-> "a", B |-> "b", C |-> "c", D |-> "d", E |-> "e", F |-> "f",
   G |-> "g", H |-> "h", I |-> "i", J |-> "j", K |-> "k", L |-> "l",
   M |-> "m", N |-> "n", O |-> "o", P |-> "p", Q |-> "q", R |-> "r",
   S |-> "s", T |-> "t", U |-> "u", V |-> "v", W |-> "w", X |-> "x",
   Y |-> "y", Z |-> "z"]

LowerChar(ch) == IF ch \in DOMAIN UpperToLower THEN UpperToLower[ch] ELSE ch

\* str.lower(): streaming_adapter.py lines 50 and 81.
Lower(s) == [i \in 1..Len(s) |-> LowerChar(s[i])]

PhThinking == <<"t", "h", "i", "n", "k", "i", "n", "g">>
PhDebate == <<"d", "e", "b", "a", "t", "e">>
PhVoting == <<"v", "o", "t", "i", "n", "g">>

\* Phase names as the engine or a caller may spell them.
PhDebateUpper == <<"D", "E", "B", "A", "T", "E">>
PhThinkingMixed == <<"T", "h", "i", "n", "k", "i", "n", "g">>
PhSummary == <<"s", "u", "m", "m", "a", "r", "y">>

\* The keys of self._chunks, fixed by __init__.
PhaseKeys == {PhThinking, PhDebate, PhVoting}

\* PersonaType members and their .value strings.
PersonaTypes == {"MELCHIOR", "BALTHASAR", "CASPER"}

PersonaValue(p) ==
  CASE p = "MELCHIOR" -> "melchior"
    [] p = "BALTHASAR" -> "balthasar"
    [] p = "CASPER" -> "casper"

\* What the producer emits through an emitter: (persona string, phase).
BridgeKinds ==
  { [persona |-> "melchior", phase |-> PhDebateUpper],
    [persona |-> "casper", phase |-> PhSummary] }

\* What the history specifications hand to _send_chunk.
HistoryKinds ==
  { [persona |-> "melchior", phase |-> PhDebate],
    [persona |-> "balthasar", phase |-> PhDebateUpper],
    [persona |-> "melchior", phase |-> PhThinkingMixed],
    [persona |-> "balthasar", phase |-> PhSummary] }

\* Phase arguments callers pass to the two query methods.
QueryPhases == {PhDebate, PhDebateUpper, PhThinkingMixed, PhSummary}

\* Every spelling of a phase name the model knows.
PhaseSpellings == QueryPhases \cup {PhThinking, PhVoting}

Emitters == 1..MaxEmitters

NoChunk == [id |-> 0]
NoPending == [e |-> 0]
NoRef == [kind |-> "none"]

\* An element a caller puts into a list it was handed.
CallerItem == [id |-> -1, persona |-> "caller", phase |-> PhDebate]

VARIABLES
  emitterCur,   \* self._emitter: 0 is None, else the emitter it refers to
  queue,        \* per emitter: the bounded FIFO queue
  eDropped,     \* per emitter: its dropped counter
  eClosed,      \* per emitter: aclose() has completed
  wpc,          \* per emitter: its consumption task, "idle" or "callback"
  wchunk,       \* per emitter: the chunk its _send_chunk call is handling
  pending,      \* the producer's emit() waiting for queue space
  chunks,       \* self._chunks
  nextId,       \* identity of the next StreamChunk object
  submitted,    \* per emitter: every chunk emit() was called with
  enq,          \* per emitter: every chunk that entered the queue
  processed,    \* every chunk _send_chunk was called with, in call order
  cbSeq,        \* every argument on_chunk was invoked with, in call order
  cbDone,       \* completed on_chunk invocations (returned or raised)
  raised,       \* ids of the chunks whose on_chunk invocation raised
  closedBy,     \* emitters that were current when a close() returned
  closeReturned,\* some close() has returned
  closeFailed,  \* some close() awaited aclose() on what is no emitter
  ret,          \* the list object a query method returned last
  retExpect,    \* what that list held when returned, plus the caller's edits
  appPc,        \* run_app: where the script run stands
  runs,         \* script runs started with the button pressed
  apiKey,       \* the run's api_key widget value
  prompt,       \* the run's prompt text
  modelSel,     \* the run's model selection
  streamingOn,  \* the run's enable_streaming checkbox
  files,        \* uploaded files: size and read position of each
  attachments,  \* the run's attachments: bytes read per file, or "none"
  env,          \* os.environ, the six MAGI_* variables
  envAtStart,   \* os.environ as the run found it
  filesAtStart, \* the uploaded files as the run found them
  out,          \* what the run has rendered below the button, in order
  status,       \* the status placeholder of the run
  configEnv,    \* os.environ as Config() found it, "none" before
  engineBuilt,  \* _build_engine returned an engine in this run
  executed,     \* engine.execute was called in this run
  adapterSt,    \* the run's streaming adapter: "none", "open", "closed"
  failure,      \* why the run was aborted, "none" otherwise
  ptIsStr,      \* the build: PersonaType is declared with str as a base
  result,       \* the ConsensusResult the engine returned
  resultIn,     \* that result as the engine returned it
  rprompt,      \* the prompt handed to generate_report
  rpc,          \* how far the result has been handled
  thinking_results, \* run_app's normalized thinking map (line 428)
  voting_results,   \* run_app's normalized vote map (line 429)
  normRaised,   \* a normalizer raised
  screen,       \* the fragments the renderer emitted, in order
  report,       \* what generate_report returned: its sections, in order
  clock,        \* what datetime.now() returns
  fnCalls,      \* the calls of generate_filename made so far
  exc,          \* the exception a guarded call of run_app raised
  raisedIn,     \* the guarded call that raised it
  shown,        \* the message st.error was handed for it
  engineOut,    \* _execute_async: how engine.execute ends
  adapterGiven, \* _execute_async: an adapter was passed
  inFlight,     \* _execute_async: what _run is returning or raising
  closeCalls,   \* _execute_async: awaited adapter.close() calls
  xpc           \* _execute_async: where the call stands

bridgeVars == <<emitterCur, queue, eDropped, eClosed, wpc, wchunk, pending,
                chunks, nextId, submitted, enq, processed, cbSeq, cbDone,
                raised, closedBy, closeReturned, closeFailed>>
queryVars == <<ret, retExpect>>
appVars == <<appPc, runs, apiKey, prompt, modelSel, streamingOn, files,
             attachments, env, envAtStart, filesAtStart, out, status,
             configEnv, engineBuilt, executed, adapterSt, failure>>

resultVars == <<ptIsStr, result, resultIn, rprompt, rpc, thinking_results,
                voting_results, normRaised, screen, report>>

callVars == <<clock, fnCalls, exc, raisedIn, shown, engineOut, adapterGiven,
              inFlight, closeCalls, xpc>>

vars == <<bridgeVars, queryVars, appVars, resultVars, callVars>>

Range(s) == {s[i] : i \in 1..Len(s)}

\* ---------------------------------------------------------------- adapter
\* A variant of SendChunkHistory that appends only after on_chunk returned.
SendChunkHistoryLate(h, c, stage) ==
  IF stage = "return" /\ Lower(c.phase) \in DOMAIN h
    THEN [h EXCEPT ![Lower(c.phase)] = Append(@, c)]
    ELSE h

\* A variant of SendChunkHistory that puts the chunk at the front of its
\* list.
SendChunkHistoryFront(h, c, stage) ==
  IF stage = "notify" /\ Lower(c.phase) \in DOMAIN h
    THEN [h EXCEPT ![Lower(c.phase)] = <<c>> \o @]
    ELSE h

\* A variant of SendChunkHistory that opens a list for a phase it does not
\* know (setdefault).
SendChunkHistoryAnyPhase(h, c, stage) ==
  IF stage # "notify" THEN h
  ELSE IF Lower(c.phase) \in DOMAIN h
    THEN [h EXCEPT ![Lower(c.phase)] = Append(@, c)]
    ELSE (Lower(c.phase) :> <<c>>) @@ h

\* _send_chunk, lines 50-56: self._chunks as each stage of the call leaves
\* it.  The append (lines 50-52) comes before on_chunk is invoked ("notify");
\* nothing follows the callback, whether it returns or raises.
SendChunkHistory(h, c, stage) ==
  IF stage = "notify" /\ Lower(c.phase) \in DOMAIN h
    THEN [h EXCEPT ![Lower(c.phase)] = Append(@, c)]
    ELSE h

\* A variant of CallbackArgs that notifies twice.
CallbackArgsTwice(h, c) == <<c, c>>

\* A variant of CallbackArgs that notifies only for chunks that were stored.
CallbackArgsStoredOnly(h, c) ==
  IF Lower(c.phase) \in DOMAIN h THEN <<c>> ELSE <<>>

\* _send_chunk, lines 55-56: the arguments of the on_chunk invocations made
\* for chunk c (on_chunk is a callable in every caller of the repository).
CallbackArgs(h, c) == <<c>>

\* A variant of LoopIdle for a _send_chunk that would yield to the loop.
LoopIdleYielding == TRUE

\* _send_chunk is a coroutine whose body (lines 50-56) contains no await:
\* once entered it runs to its end before the event loop runs anything
\* else, so every other step waits until no call is in progress.
LoopIdle == \A e \in Emitters : wpc[e] = "idle"

\* A variant of dropped that keeps reading the first emitter created.
droppedOfFirst == IF emitterCur # 0 THEN eDropped[1] ELSE 0

\* The dropped property, lines 101-106.
dropped == IF emitterCur # 0 THEN eDropped[emitterCur] ELSE 0

\* A variant of CloseTargets for a close() that never awaits aclose().
CloseTargetsNone == {}

\* close(), lines 98-99: the emitters whose aclose() it awaits.
CloseTargets == IF emitterCur # 0 THEN {emitterCur} ELSE {}

\* A variant of get_chunks_by_phase that looks the phase up as spelled.
get_chunks_by_phase_cased(phase) ==
  IF phase \in DOMAIN chunks
    THEN [kind |-> "stored", key |-> phase]
    ELSE [kind |-> "fresh", val |-> <<>>]

\* get_chunks_by_phase, line 81: dict.get returns the stored list object
\* itself for a known key and a fresh empty list otherwise.
get_chunks_by_phase(phase) ==
  IF Lower(phase) \in DOMAIN chunks
    THEN [kind |-> "stored", key |-> Lower(phase)]
    ELSE [kind |-> "fresh", val |-> <<>>]

\* The elements a list reference holds in the current state.
Deref(r) ==
  CASE r.kind = "stored" -> chunks[r.key]
    [] r.kind = "fresh" -> r.val
    [] OTHER -> <<>>

\* get_chunks_by_persona, lines 93-94: a new list built by a comprehension.
get_chunks_by_persona(persona, phase) ==
  [kind |-> "fresh",
   val |-> SelectSeq(Deref(get_chunks_by_phase(phase)),
                     LAMBDA c : c.persona = PersonaValue(persona))]

\* -------------------------------------------- emitter (specification 4.1)
\* Whether the consumption task goes on after send_func raised
\* ("callback exceptions are isolated per chunk").
IsolatesCallbackFailure == TRUE

\* The queue of an emitter once aclose() has completed ("release the
\* queue"); the stopped consumption task is the ~eClosed guard of
\* SendChunkEnter.
QueueAfterAclose == <<>>

\* create_emitter, lines 64-70: a new emitter replaces self._emitter; the
\* emitter it replaces is neither closed nor remembered.
CreateEmitter ==
  /\ LoopIdle
  /\ emitterCur < MaxEmitters
  /\ emitterCur' = emitterCur + 1
  /\ UNCHANGED <<queue, eDropped, eClosed, wpc, wchunk, pending, chunks,
                 nextId, submitted, enq, processed, cbSeq, cbDone, raised,
                 closedBy, closeReturned, closeFailed, queryVars, appVars, resultVars, callVars>>

\* emit() on a handle create_emitter returned: the chunk enters the queue
\* when there is room, otherwise the producer waits for room.
Emit(e, k) ==
  /\ LoopIdle
  /\ e <= emitterCur
  /\ ~eClosed[e]
  /\ pending = NoPending
  /\ nextId <= MaxEmit
  /\ LET c == [id |-> nextId, persona |-> k.persona, phase |-> k.phase]
     IN /\ submitted' = [submitted EXCEPT ![e] = Append(@, c)]
        /\ IF Len(queue[e]) < QueueSize
             THEN /\ queue' = [queue EXCEPT ![e] = Append(@, c)]
                  /\ enq' = [enq EXCEPT ![e] = Append(@, c)]
                  /\ pending' = pending
             ELSE /\ pending' = [e |-> e, chunk |-> c]
                  /\ UNCHANGED <<queue, enq>>
  /\ nextId' = nextId + 1
  /\ UNCHANGED <<emitterCur, eDropped, eClosed, wpc, wchunk, chunks,
                 processed, cbSeq, cbDone, raised, closedBy, closeReturned,
                 closeFailed, queryVars, appVars, resultVars, callVars>>

\* Room appeared before the per-chunk timeout: the waiting chunk enters.
EmitResume ==
  /\ LoopIdle
  /\ pending # NoPending
  /\ Len(queue[pending.e]) < QueueSize
  /\ queue' = [queue EXCEPT ![pending.e] = Append(@, pending.chunk)]
  /\ enq' = [enq EXCEPT ![pending.e] = Append(@, pending.chunk)]
  /\ pending' = NoPending
  /\ UNCHANGED <<emitterCur, eDropped, eClosed, wpc, wchunk, chunks, nextId,
                 submitted, processed, cbSeq, cbDone, raised, closedBy,
                 closeReturned, closeFailed, queryVars, appVars, resultVars, callVars>>

\* The per-chunk timeout elapsed with the queue still full: the chunk is
\* discarded and the emitter's dropped counter incremented.
EmitTimeout ==
  /\ LoopIdle
  /\ pending # NoPending
  /\ Len(queue[pending.e]) >= QueueSize
  /\ eDropped' = [eDropped EXCEPT ![pending.e] = @ + 1]
  /\ pending' = NoPending
  /\ UNCHANGED <<emitterCur, queue, eClosed, wpc, wchunk, chunks, nextId,
                 submitted, enq, processed, cbSeq, cbDone, raised, closedBy,
                 closeReturned, closeFailed, queryVars, appVars, resultVars, callVars>>

\* The consumption task of emitter e takes the head of its queue and calls
\* send_func, which is _send_chunk: lines 50-56 up to the point where
\* on_chunk has been invoked.
SendChunkEnter(e) ==
  /\ LoopIdle
  /\ wpc[e] = "idle"
  /\ e <= emitterCur
  /\ ~eClosed[e]
  /\ queue[e] # <<>>
  /\ LET c == Head(queue[e])
     IN /\ queue' = [queue EXCEPT ![e] = Tail(@)]
        /\ processed' = Append(processed, c)
        /\ cbSeq' = cbSeq \o CallbackArgs(chunks, c)
        /\ chunks' = SendChunkHistory(chunks, c, "notify")
        /\ wchunk' = [wchunk EXCEPT ![e] = c]
  /\ wpc' = [wpc EXCEPT ![e] = "callback"]
  /\ UNCHANGED <<emitterCur, eDropped, eClosed, pending, nextId, submitted,
                 enq, cbDone, raised, closedBy, closeReturned, closeFailed, queryVars, appVars, resultVars, callVars>>

\* on_chunk returns; _send_chunk returns to the consumption task.
CallbackReturn(e) ==
  /\ wpc[e] = "callback"
  /\ chunks' = SendChunkHistory(chunks, wchunk[e], "return")
  /\ cbDone' = cbDone + Len(CallbackArgs(chunks, wchunk[e]))
  /\ wpc' = [wpc EXCEPT ![e] = "idle"]
  /\ wchunk' = [wchunk EXCEPT ![e] = NoChunk]
  /\ UNCHANGED <<emitterCur, queue, eDropped, eClosed, pending, nextId,
                 submitted, enq, processed, cbSeq, raised, closedBy,
                 closeReturned, closeFailed, queryVars, appVars, resultVars, callVars>>

\* on_chunk raises: line 56 has no handler, so the exception leaves
\* _send_chunk and reaches the consumption task that called it.
CallbackRaise(e) ==
  /\ wpc[e] = "callback"
  /\ CallbackArgs(chunks, wchunk[e]) # <<>>
  /\ chunks' = SendChunkHistory(chunks, wchunk[e], "raise")
  /\ cbDone' = cbDone + 1
  /\ raised' = raised \cup {wchunk[e].id}
  /\ wpc' = [wpc EXCEPT ![e] = IF IsolatesCallbackFailure THEN "idle"
                                                          ELSE "dead"]
  /\ wchunk' = [wchunk EXCEPT ![e] = NoChunk]
  /\ UNCHANGED <<emitterCur, queue, eDropped, eClosed, pending, nextId,
                 submitted, enq, processed, cbSeq, closedBy, closeReturned,
                 closeFailed, queryVars, appVars, resultVars, callVars>>

\* close(), lines 96-99, awaited by the coroutine that awaited the engine
\* (no emit() is in flight).  aclose() stops the consumption task and
\* releases the queue.
Close ==
  /\ LoopIdle
  /\ pending = NoPending
  /\ eClosed' = [e \in Emitters |-> eClosed[e] \/ e \in CloseTargets]
  /\ queue' = [e \in Emitters |-> IF e \in CloseTargets THEN QueueAfterAclose
                                                        ELSE queue[e]]
  /\ closedBy' = IF emitterCur # 0 THEN closedBy \cup {emitterCur}
                                   ELSE closedBy
  /\ closeReturned' = TRUE
  /\ closeFailed' = (closeFailed \/ \E t \in CloseTargets : t \notin Emitters)
  /\ UNCHANGED <<emitterCur, eDropped, wpc, wchunk, pending, chunks, nextId,
                 submitted, enq, processed, cbSeq, cbDone, raised, queryVars, appVars, resultVars, callVars>>

\* ------------------------------------------------------- run_app: data
\* app.py line 321.
MAX_FILE_SIZE_MB == 10

\* The size ceiling in bytes, app.py line 328.
MaxFileBytes == MAX_FILE_SIZE_MB * 1024 * 1024

\* Sizes of uploaded files: small, exactly at the ceiling, one byte over.
FileSizes == {1024, MaxFileBytes, MaxFileBytes + 1}

\* What the uploader may hold: files not yet read.
UploadSets ==
  UNION {[1..n -> [size : FileSizes, pos : {0}]] : n \in 0..MaxFiles}

\* Values of the api key widget; "" is an empty field.
ApiKeys == {"", "key-1", "key-2"}

\* Options of the model selectbox, app.py line 276.
Models == {"gemini-1.5-pro", "gemini-1.5-flash"}

\* Prompt texts, as sequences of characters.
Prompts == {<<>>, <<" ", "\t">>, <<" ", "g", "o", " ">>}

Whitespace == {" ", "\t", "\n", "\r"}

RECURSIVE StripLeft(_)
StripLeft(s) ==
  IF s # <<>> /\ Head(s) \in Whitespace THEN StripLeft(Tail(s)) ELSE s

RECURSIVE StripRight(_)
StripRight(s) ==
  IF s # <<>> /\ s[Len(s)] \in Whitespace
    THEN StripRight(SubSeq(s, 1, Len(s) - 1))
    ELSE s

\* str.strip(), app.py line 316.
Strip(s) == StripRight(StripLeft(s))

EnvNames == {"MAGI_DEFAULT_PROVIDER", "MAGI_API_KEY", "MAGI_MODEL",
             "MAGI_GEMINI_API_KEY", "MAGI_GEMINI_MODEL",
             "MAGI_GEMINI_ENDPOINT"}

\* app.py line 343.
Endpoint == "https://generativelanguage.googleapis.com"

\* A variant of _set_gemini_env that sets a variable only where it is not
\* set yet (os.environ.setdefault).
set_gemini_env_default(e, api_key, model, endpoint) ==
  [n \in EnvNames |->
     IF e[n] # "unset" THEN e[n]
     ELSE CASE n = "MAGI_DEFAULT_PROVIDER" -> "gemini"
            [] n = "MAGI_API_KEY" -> api_key
            [] n = "MAGI_MODEL" -> model
            [] n = "MAGI_GEMINI_API_KEY" -> api_key
            [] n = "MAGI_GEMINI_MODEL" -> model
            [] n = "MAGI_GEMINI_ENDPOINT" -> endpoint]

\* _set_gemini_env, app.py lines 40-47: os.environ afterwards.
set_gemini_env(e, api_key, model, endpoint) ==
  [n \in EnvNames |->
     CASE n = "MAGI_DEFAULT_PROVIDER" -> "gemini"
       [] n = "MAGI_API_KEY" -> api_key
       [] n = "MAGI_MODEL" -> model
       [] n = "MAGI_GEMINI_API_KEY" -> api_key
       [] n = "MAGI_GEMINI_MODEL" -> model
       [] n = "MAGI_GEMINI_ENDPOINT" -> endpoint]

\* How a call into magi-core may end: it returns, raises a MagiException,
\* or raises another exception.
Outcomes == {"ok", "MagiException", "Exception"}

\* The section titles of a successful run, app.py lines 432-453, in order.
ResultSections == <<"section:Thinking", "section:Debate", "section:Voting",
                    "section:Final Decision", "section:Export">>

\* The streaming section title, app.py line 364.
StreamingSection == "section:Debate (Streaming)"

\* The st.error messages of run_app.
ErrorItems == {"error:api_key", "error:prompt", "error:file_size",
               "error:MagiException", "error:Configuration error",
               "error:Engine initialization error",
               "error:Unexpected error"}

\* The calls of the attachment loop that may raise, app.py lines 332-334.
AttachCalls == {"read", "Attachment"}

\* The attachment loop, app.py lines 323-340, over the uploaded files fs.
\* Every file before the first oversized one is read to its end; the
\* rewind of lines 339-340 is reached only when no file is oversized.
FirstOversized(fs) ==
  IF \E i \in 1..Len(fs) : fs[i].size > MaxFileBytes
    THEN CHOOSE i \in 1..Len(fs) :
           /\ fs[i].size > MaxFileBytes
           /\ \A j \in 1..(i - 1) : fs[j].size <= MaxFileBytes
    ELSE 0

\* The attachments built when no file is oversized: the bytes f.read()
\* returns for each file, from its read position to its end.
AttachmentsOf(fs) == [i \in 1..Len(fs) |-> fs[i].size - fs[i].pos]

\* The uploaded files after the loop.
FilesAfterLoop(fs) ==
  IF FirstOversized(fs) = 0
    THEN [i \in 1..Len(fs) |-> [fs[i] EXCEPT !.pos = 0]]
    ELSE [i \in 1..Len(fs) |->
            IF i < FirstOversized(fs) THEN [fs[i] EXCEPT !.pos = fs[i].size]
                                      ELSE fs[i]]

InitApp ==
  /\ appPc = "idle"
  /\ runs = 0
  /\ apiKey = ""
  /\ prompt = <<>>
  /\ modelSel = "gemini-1.5-pro"
  /\ streamingOn = FALSE
  /\ files \in UploadSets
  /\ attachments = "none"
  /\ env \in {[n \in EnvNames |-> "unset"], [n \in EnvNames |-> "stale"]}
  /\ envAtStart = env
  /\ filesAtStart = files
  /\ out = <<>>
  /\ status = "none"
  /\ configEnv = "none"
  /\ engineBuilt = FALSE
  /\ executed = FALSE
  /\ adapterSt = "none"
  /\ failure = "none"

\* ---------------------------------------------------------- engine results
\* Entries a per-persona map of the engine may hold.
MaxEntries == 3
\* Characters of a free text (content, reason).
MaxTextLen == 2
\* Entries of a conditions list.
MaxConds == 2

\* Free text is a sequence of one-character strings.
Texts(chars, n) == UNION {[1..k -> chars] : k \in 0..n}

\* PERSONA_ORDER, app.py line 22 and report.py line 24.
PERSONA_ORDER == <<"MELCHIOR", "BALTHASAR", "CASPER">>

\* PERSONA_LABELS, app.py lines 23-27 and report.py lines 18-22.
PERSONA_LABELS(p) ==
  CASE p = "MELCHIOR" -> "MELCHIOR"
    [] p = "BALTHASAR" -> "BALTHASAR"
    [] p = "CASPER" -> "CASPER"

\* PERSONA_CLASSES, app.py lines 28-32.
PERSONA_CLASSES(p) ==
  CASE p = "MELCHIOR" -> "persona-melchior"
    [] p = "BALTHASAR" -> "persona-balthasar"
    [] p = "CASPER" -> "persona-casper"

\* Decision members, by their .value.
Decisions == {"approved", "denied", "conditional"}

\* DECISION_CLASSES.get(decision, "decision-conditional"), app.py lines
\* 33-37 and 196.
DECISION_CLASSES(d) ==
  CASE d = "approved" -> "decision-approved"
    [] d = "denied" -> "decision-denied"
    [] d = "conditional" -> "decision-conditional"
    [] OTHER -> "decision-conditional"

\* DECISION_LABELS.get(decision, str(decision)), report.py lines 26-30 and
\* 163.
DECISION_LABELS(d) ==
  CASE d = "approved" -> "APPROVED"
    [] d = "denied" -> "DENIED"
    [] d = "conditional" -> "CONDITIONAL"
    [] OTHER -> d

\* A key of a map: a PersonaType member, a str, or an object of another
\* type.
PersonaKey(p) == [t |-> "PersonaType", v |-> p]
StrKey(s) == [t |-> "str", v |-> s]
IntKey == [t |-> "int", v |-> "0"]

\* The string a key compares as, where it compares as one.
KeyString(k) == IF k.t = "PersonaType" THEN PersonaValue(k.v) ELSE k.v

\* Two keys address the same dict slot (hash and ==).  A PersonaType member
\* equals its value string only where PersonaType has str as a base.
KeyEq(a, b) ==
  \/ a = b
  \/ /\ ptIsStr
     /\ a.t \in {"PersonaType", "str"}
     /\ b.t \in {"PersonaType", "str"}
     /\ KeyString(a) = KeyString(b)

\* A dict is the sequence of its entries [k, v] in insertion order.
DictSlots(d, k) == {i \in 1..Len(d) : KeyEq(d[i].k, k)}

\* d.get(k): the value in a one-element sequence, <<>> for None.
DictGet(d, k) ==
  IF DictSlots(d, k) = {} THEN <<>>
  ELSE <<d[CHOOSE i \in DictSlots(d, k) : TRUE].v>>

\* d[k] = v.
DictSet(d, k, v) ==
  IF DictSlots(d, k) = {} THEN Append(d, [k |-> k, v |-> v])
  ELSE [i \in 1..Len(d) |->
          IF i \in DictSlots(d, k) THEN [d[i] EXCEPT !.v = v] ELSE d[i]]

\* dict == dict.
DictEq(a, b) ==
  /\ Len(a) = Len(b)
  /\ \A i \in 1..Len(a) : DictGet(b, a[i].k) = <<a[i].v>>

\* A list that may be None.
NoList == [isNone |-> TRUE, items |-> <<>>]
ListOf(items) == [isNone |-> FALSE, items |-> items]

\* bool(list): None and [] are falsy.
Truthy(l) == ~l.isNone /\ l.items # <<>>

\* for persona in PersonaType: the members in definition order.
PersonaMembers == PERSONA_ORDER

\* A variant of the lookup that goes by the member's name.
MemberByName(s) ==
  IF \E i \in 1..Len(PersonaMembers) : PersonaMembers[i] = s
    THEN CHOOSE i \in 1..Len(PersonaMembers) : PersonaMembers[i] = s
    ELSE 0

\* The first member whose value is the string, 0 when there is none:
\* app.py lines 101-104.
MemberByValue(s) ==
  IF \E i \in 1..Len(PersonaMembers) : PersonaValue(PersonaMembers[i]) = s
    THEN CHOOSE i \in 1..Len(PersonaMembers) :
           /\ PersonaValue(PersonaMembers[i]) = s
           /\ \A j \in 1..(i - 1) : PersonaValue(PersonaMembers[j]) # s
    ELSE 0

\* A normalizer that takes the key for a member name and fails on others.
RECURSIVE normalize_strict(_, _)
normalize_strict(items, normalized) ==
  IF items = <<>> THEN [raised |-> FALSE, normalized |-> normalized]
  ELSE LET key == Head(items).k
           value == Head(items).v
       IN IF key.t = "PersonaType"
            THEN normalize_strict(Tail(items), DictSet(normalized, key, value))
            ELSE IF key.t = "str" /\ key.v \in PersonaTypes
              THEN normalize_strict(Tail(items),
                                    DictSet(normalized, PersonaKey(key.v),
                                            value))
              ELSE [raised |-> TRUE, normalized |-> normalized]

\* The loop of _normalize_thinking, app.py lines 96-104, over the items
\* not yet visited.
RECURSIVE normalize_loop(_, _)
normalize_loop(items, normalized) ==
  IF items = <<>> THEN [raised |-> FALSE, normalized |-> normalized]
  ELSE LET key == Head(items).k
           value == Head(items).v
       IN IF key.t = "PersonaType"
            THEN normalize_loop(Tail(items), DictSet(normalized, key, value))
            ELSE IF key.t = "str" /\ MemberByValue(key.v) # 0
              THEN normalize_loop(
                     Tail(items),
                     DictSet(normalized,
                             PersonaKey(PersonaMembers[MemberByValue(key.v)]),
                             value))
              ELSE normalize_loop(Tail(items), normalized)

\* _normalize_thinking, app.py lines 93-105.
normalize_thinking(thinking) == normalize_loop(thinking, <<>>)

\* _normalize_votes, app.py lines 108-120: the same loop.
normalize_votes(voting) == normalize_loop(voting, <<>>)

\* A result with nothing in it.
EmptyResult ==
  [thinking_results |-> <<>>, debate_results |-> <<>>,
   voting_results |-> <<>>, final_decision |-> "approved",
   all_conditions |-> NoList]

\* ------------------------------------------------------- report filename
\* Calls of generate_filename in one behaviour.
MaxCalls == 2

\* Values of datetime objects, in the order of time.  The years have four
\* digits, as every year a wall clock shows has.
Timestamps ==
  <<[year |-> 1999, month |-> 12, day |-> 31,
     hour |-> 23, minute |-> 59, second |-> 59],
    [year |-> 2026, month |-> 1, day |-> 8,
     hour |-> 0, minute |-> 0, second |-> 9],
    [year |-> 2026, month |-> 1, day |-> 8,
     hour |-> 15, minute |-> 58, second |-> 0],
    [year |-> 2030, month |-> 10, day |-> 10,
     hour |-> 10, minute |-> 10, second |-> 10]>>

DigitChars == <<"0", "1", "2", "3", "4", "5", "6", "7", "8", "9">>

RECURSIVE Pow10(_)
Pow10(k) == IF k = 0 THEN 1 ELSE 10 * Pow10(k - 1)

\* A strftime field of width w: the decimal digits of n, zero-padded.
Pad(n, w) == [i \in 1..w |-> DigitChars[((n \div Pow10(w - i)) % 10) + 1]]

\* timestamp.strftime("%Y%m%d-%H%M%S"), report.py line 214.
date_str(ts) ==
  Pad(ts.year, 4) \o Pad(ts.month, 2) \o Pad(ts.day, 2) \o <<"-">>
    \o Pad(ts.hour, 2) \o Pad(ts.minute, 2) \o Pad(ts.second, 2)

\* A variant of generate_filename that puts the prompt into the name.
generate_filename_with_prompt(prompt_text, timestamp, now) ==
  <<"magi-report-">> \o prompt_text
    \o date_str(IF timestamp = <<>> THEN now ELSE timestamp[1])
    \o <<".md">>

\* generate_filename, report.py lines 201-215; timestamp is <<>> for None,
\* and now is what datetime.now() returns at the call.
generate_filename(prompt_text, timestamp, now) ==
  <<"magi-report-">>
    \o date_str(IF timestamp = <<>> THEN now ELSE timestamp[1])
    \o <<".md">>

\* ------------------------------------------------------------ exceptions
\* An attribute an object may lack (getattr with a default).
NoAttr == [has |-> FALSE, v |-> <<>>]
Attr(v) == [has |-> TRUE, v |-> v]

\* The value of exc.error when there is none.
NoError == [isNone |-> TRUE, code |-> NoAttr, message |-> NoAttr]

\* Characters of an error text.
ExcChars == {"a", ":"}
ExcTexts == Texts(ExcChars, MaxTextLen)

\* The codes and messages of structured error objects.
ErrorCodes == {NoAttr, Attr(<<"E", "1">>), Attr(<<>>)}
ErrorMessages == {NoAttr, Attr(<<"m">>), Attr(<<"a", ":", " ", "b">>)}

\* What a call into magi-core may raise: a MagiException, with or without
\* a structured error object, or another exception; text is str(exc).
Exceptions ==
  {[kind |-> "MagiException", text |-> t, error |-> NoError] : t \in ExcTexts}
  \cup
  {[kind |-> "MagiException", text |-> t,
    error |-> [isNone |-> FALSE, code |-> c, message |-> m]] :
     t \in ExcTexts, c \in ErrorCodes, m \in ErrorMessages}
  \cup
  {[kind |-> "Exception", text |-> t, error |-> NoError] : t \in ExcTexts}

\* The calls of run_app that have handlers: Config(...), _build_engine,
\* _execute_async.
Stages == {"config", "engine", "execute"}

\* A variant of _render_error_message that never looks at exc.error.
render_error_message_plain(e) == <<"Magi error: ">> \o e.text

\* _render_error_message, app.py lines 221-228.
render_error_message(e) ==
  LET error == e.error
  IN IF error.isNone THEN <<"Magi error: ">> \o e.text
     ELSE LET code == IF error.code.has THEN error.code.v
                                        ELSE <<"MAGI_ERROR">>
              message == IF error.message.has THEN error.message.v
                                              ELSE e.text
          IN code \o <<": ">> \o message

\* The two handlers of each guarded call, app.py lines 351-356, 402-407
\* and 417-424: what st.error is handed.
handler_message(st, e) ==
  IF e.kind = "MagiException" THEN render_error_message(e)
  ELSE CASE st = "config" -> <<"Configuration error: ">> \o e.text
         [] st = "engine" -> <<"Engine initialization error: ">> \o e.text
         [] st = "execute" -> <<"Unexpected error: ">> \o e.text

\* -------------------------------------------------------- _execute_async
NoOutcome == [kind |-> "none"]

\* How engine.execute may end: it returns a result or raises.
ExecuteResults ==
  {[EmptyResult EXCEPT !.final_decision = d] : d \in Decisions}

ExecuteOutcomes ==
  {[kind |-> "returns", value |-> r] : r \in ExecuteResults}
  \cup {[kind |-> "raises", value |-> e] : e \in Exceptions}

\* How aclose() of the emitter ends ("safe to call even if no chunks were
\* ever produced").
AcloseOutcome == "returns"

\* A variant of the finally clause that closes only after execute
\* returned (try/else).
closes_on_return(adapter, outcome) == adapter /\ outcome.kind = "returns"

\* The finally clause of _run, app.py lines 86-88: adapter.close() is
\* awaited when an adapter was passed, however execute ended.
closes_in_finally(adapter, outcome) == adapter

\* Nothing is being named, handled or executed.
InitNoCalls ==
  /\ clock = Timestamps[1]
  /\ fnCalls = <<>>
  /\ exc = NoOutcome
  /\ raisedIn = "none"
  /\ shown = <<>>
  /\ engineOut = NoOutcome
  /\ adapterGiven = FALSE
  /\ inFlight = NoOutcome
  /\ closeCalls = 0
  /\ xpc = "none"

\* No result is being handled.
InitNoResult ==
  /\ ptIsStr = FALSE
  /\ result = EmptyResult
  /\ resultIn = EmptyResult
  /\ rprompt = <<>>
  /\ rpc = "none"
  /\ thinking_results = <<>>
  /\ voting_results = <<>>
  /\ normRaised = FALSE
  /\ screen = <<>>
  /\ report = [sections |-> <<>>, text |-> <<>>]

\* The adapter as __init__ leaves it, lines 33-41.
InitBridge ==
  /\ emitterCur = 0
  /\ queue = [e \in Emitters |-> <<>>]
  /\ eDropped = [e \in Emitters |-> 0]
  /\ eClosed = [e \in Emitters |-> FALSE]
  /\ wpc = [e \in Emitters |-> "idle"]
  /\ wchunk = [e \in Emitters |-> NoChunk]
  /\ pending = NoPending
  /\ chunks = [k \in PhaseKeys |-> <<>>]
  /\ nextId = 1
  /\ submitted = [e \in Emitters |-> <<>>]
  /\ enq = [e \in Emitters |-> <<>>]
  /\ processed = <<>>
  /\ cbSeq = <<>>
  /\ cbDone = 0
  /\ raised = {}
  /\ closedBy = {}
  /\ closeReturned = FALSE
  /\ closeFailed = FALSE
  /\ ret = NoRef
  /\ retExpect = <<>>

\* The bridge specifications leave the application untouched: no upload,
\* no MAGI_* variable set.
Init ==
  /\ InitBridge
  /\ InitApp
  /\ InitNoResult
  /\ InitNoCalls
  /\ files = <<>>
  /\ env = [n \in EnvNames |-> "unset"]

InitWithApp == InitBridge /\ InitApp /\ InitNoResult /\ InitNoCalls

Next ==
  \/ CreateEmitter
  \/ \E e \in Emitters, k \in BridgeKinds : Emit(e, k)
  \/ EmitResume
  \/ EmitTimeout
  \/ \E e \in Emitters : SendChunkEnter(e)
  \/ \E e \in Emitters : CallbackReturn(e)
  \/ \E e \in Emitters : CallbackRaise(e)
  \/ Close

Spec == Init /\ [][Next]_vars

\* ------------------------------------------------ history specifications
\* _send_chunk awaited directly with a chunk, as the unit tests do: the
\* whole call, lines 50-56, with on_chunk returning or raising.
SendChunkDirect(k, didRaise) ==
  /\ nextId <= MaxProcessed
  /\ LET c == [id |-> nextId, persona |-> k.persona, phase |-> k.phase]
         atNotify == SendChunkHistory(chunks, c, "notify")
     IN /\ processed' = Append(processed, c)
        /\ cbSeq' = cbSeq \o CallbackArgs(chunks, c)
        /\ cbDone' = cbDone + Len(CallbackArgs(chunks, c))
        /\ chunks' = SendChunkHistory(atNotify, c,
                                      IF didRaise THEN "raise" ELSE "return")
        /\ raised' = IF didRaise THEN raised \cup {c.id} ELSE raised
  /\ nextId' = nextId + 1
  /\ UNCHANGED <<emitterCur, queue, eDropped, eClosed, wpc, wchunk, pending,
                 submitted, enq, closedBy, closeReturned, closeFailed,
                 queryVars, appVars, resultVars, callVars>>

\* A caller calls get_chunks_by_phase and keeps what it returns.
QueryByPhase(phase) ==
  /\ ret' = get_chunks_by_phase(phase)
  /\ retExpect' = Deref(get_chunks_by_phase(phase))
  /\ UNCHANGED <<bridgeVars, appVars, resultVars, callVars>>

\* A caller calls get_chunks_by_persona and keeps what it returns.
QueryByPersona(persona, phase) ==
  /\ ret' = get_chunks_by_persona(persona, phase)
  /\ retExpect' = get_chunks_by_persona(persona, phase).val
  /\ UNCHANGED <<bridgeVars, appVars, resultVars, callVars>>

\* The caller appends an element to the list it was handed: list.append on
\* the object the query returned.
MutateReturned ==
  /\ ret # NoRef
  /\ CallerItem \notin Range(Deref(ret))
  /\ retExpect' = Append(retExpect, CallerItem)
  /\ IF ret.kind = "stored"
       THEN /\ chunks' = [chunks EXCEPT ![ret.key] = Append(@, CallerItem)]
            /\ ret' = ret
       ELSE /\ ret' = [ret EXCEPT !.val = Append(@, CallerItem)]
            /\ chunks' = chunks
  /\ UNCHANGED <<emitterCur, queue, eDropped, eClosed, wpc, wchunk, pending,
                 nextId, submitted, enq, processed, cbSeq, cbDone, raised,
                 closedBy, closeReturned, closeFailed, appVars, resultVars, callVars>>

NextHistory ==
  \/ \E k \in HistoryKinds, didRaise \in BOOLEAN : SendChunkDirect(k, didRaise)
  \/ \E phase \in QueryPhases : QueryByPhase(phase)
  \/ \E persona \in PersonaTypes, phase \in QueryPhases :
       QueryByPersona(persona, phase)

SpecHistory == Init /\ [][NextHistory]_vars

NextSnapshot ==
  \/ NextHistory
  \/ MutateReturned

SpecSnapshot == Init /\ [][NextSnapshot]_vars

\* ---------------------------------------------------------------- run_app
\* The run is aborted: the message is shown and run_app returns.
Abort(reason, message) ==
  /\ out' = Append(out, message)
  /\ failure' = reason
  /\ appPc' = "done"

\* The script runs with the button not pressed: lines 249-310.  Nothing is
\* drawn below the button.
Rerun ==
  /\ appPc \in {"idle", "done", "escaped"}
  /\ appPc' = "idle"
  /\ out' = <<>>
  /\ status' = "none"
  /\ UNCHANGED <<runs, apiKey, prompt, modelSel, streamingOn, files,
                 attachments, env, envAtStart, filesAtStart, configEnv,
                 engineBuilt, executed, adapterSt, failure, bridgeVars,
                 queryVars, resultVars, callVars>>

\* The script runs with the button pressed, with the widget values of
\* this run: lines 249-310.
RunStart(k, p, m, st) ==
  /\ appPc \in {"idle", "done", "escaped"}
  /\ runs < MaxRuns
  /\ runs' = runs + 1
  /\ apiKey' = k
  /\ prompt' = p
  /\ modelSel' = m
  /\ streamingOn' = st
  /\ envAtStart' = env
  /\ filesAtStart' = files
  /\ out' = <<>>
  /\ status' = "none"
  /\ attachments' = "none"
  /\ configEnv' = "none"
  /\ engineBuilt' = FALSE
  /\ executed' = FALSE
  /\ adapterSt' = "none"
  /\ failure' = "none"
  /\ appPc' = "validate"
  /\ UNCHANGED <<files, env, bridgeVars, queryVars, resultVars, callVars>>

\* Lines 312-318: the credential and the prompt.
Validate ==
  /\ appPc = "validate"
  /\ IF apiKey = ""
       THEN Abort("api_key", "error:api_key")
       ELSE IF Strip(prompt) = <<>>
         THEN Abort("prompt", "error:prompt")
         ELSE /\ appPc' = "attach"
              /\ UNCHANGED <<out, failure>>
  /\ UNCHANGED <<runs, apiKey, prompt, modelSel, streamingOn, files,
                 attachments, env, envAtStart, filesAtStart, status,
                 configEnv, engineBuilt, executed, adapterSt, bridgeVars,
                 queryVars, resultVars, callVars>>

\* Lines 320-340: size validation and attachment conversion.
Attach ==
  /\ appPc = "attach"
  /\ IF files = <<>>
       THEN /\ appPc' = "env"
            /\ UNCHANGED <<files, attachments, out, failure>>
       ELSE /\ files' = FilesAfterLoop(files)
            /\ IF FirstOversized(files) # 0
                 THEN /\ Abort("file_size", "error:file_size")
                      /\ UNCHANGED attachments
                 ELSE /\ attachments' = AttachmentsOf(files)
                      /\ appPc' = "env"
                      /\ UNCHANGED <<out, failure>>
  /\ UNCHANGED <<runs, apiKey, prompt, modelSel, streamingOn, env,
                 envAtStart, filesAtStart, status, configEnv, engineBuilt,
                 executed, adapterSt, bridgeVars, queryVars, resultVars, callVars>>

\* Lines 331-337 are inside no try block: when f.read() or Attachment(...)
\* raises for file i, the exception leaves run_app.  The files before i were
\* read to their end, file i too when the raise came after its read, and
\* the rewind of lines 339-340 is not reached.
AttachRaises(i, call) ==
  /\ appPc = "attach"
  /\ i \in 1..Len(files)
  /\ \A j \in 1..i : files[j].size <= MaxFileBytes
  /\ files' = [j \in 1..Len(files) |->
                IF j < i \/ (j = i /\ call = "Attachment")
                  THEN [files[j] EXCEPT !.pos = files[j].size]
                  ELSE files[j]]
  /\ failure' = "uncaught"
  /\ appPc' = "escaped"
  /\ UNCHANGED <<runs, apiKey, prompt, modelSel, streamingOn, attachments,
                 env, envAtStart, filesAtStart, out, status, configEnv,
                 engineBuilt, executed, adapterSt, bridgeVars, queryVars, resultVars, callVars>>

\* Lines 342-344.
SetEnv ==
  /\ appPc = "env"
  /\ env' = set_gemini_env(env, apiKey, modelSel, Endpoint)
  /\ appPc' = "config"
  /\ UNCHANGED <<runs, apiKey, prompt, modelSel, streamingOn, files,
                 attachments, envAtStart, filesAtStart, out, status,
                 configEnv, engineBuilt, executed, adapterSt, failure,
                 bridgeVars, queryVars, resultVars, callVars>>

\* Lines 349-356: Config(...) and its two handlers.
MakeConfig(outcome) ==
  /\ appPc = "config"
  /\ configEnv' = env
  /\ CASE outcome = "ok" ->
            /\ appPc' = "stream"
            /\ UNCHANGED <<out, failure>>
       [] outcome = "MagiException" ->
            Abort("config", "error:MagiException")
       [] outcome = "Exception" ->
            Abort("config", "error:Configuration error")
  /\ UNCHANGED <<runs, apiKey, prompt, modelSel, streamingOn, files,
                 attachments, env, envAtStart, filesAtStart, status,
                 engineBuilt, executed, adapterSt, bridgeVars, queryVars, resultVars, callVars>>

\* Lines 358-398: with streaming enabled the streaming section is drawn
\* and the adapter and its emitter are created.
PrepareStreaming ==
  /\ appPc = "stream"
  /\ IF streamingOn
       THEN /\ out' = Append(out, StreamingSection)
            /\ adapterSt' = "open"
       ELSE UNCHANGED <<out, adapterSt>>
  /\ appPc' = "build"
  /\ UNCHANGED <<runs, apiKey, prompt, modelSel, streamingOn, files,
                 attachments, env, envAtStart, filesAtStart, status,
                 configEnv, engineBuilt, executed, failure, bridgeVars,
                 queryVars, resultVars, callVars>>

\* Lines 400-410: _build_engine and its two handlers, then the status
\* placeholder.
BuildEngine(outcome) ==
  /\ appPc = "build"
  /\ CASE outcome = "ok" ->
            /\ engineBuilt' = TRUE
            /\ status' = "info"
            /\ appPc' = "exec"
            /\ UNCHANGED <<out, failure>>
       [] outcome = "MagiException" ->
            /\ Abort("engine", "error:MagiException")
            /\ UNCHANGED <<engineBuilt, status>>
       [] outcome = "Exception" ->
            /\ Abort("engine", "error:Engine initialization error")
            /\ UNCHANGED <<engineBuilt, status>>
  /\ UNCHANGED <<runs, apiKey, prompt, modelSel, streamingOn, files,
                 attachments, env, envAtStart, filesAtStart, configEnv,
                 executed, adapterSt, bridgeVars, queryVars, resultVars, callVars>>

\* Lines 412-426 with _execute_async, lines 83-90: engine.execute, then
\* adapter.close() in the finally clause, then the two handlers.
Execute(outcome) ==
  /\ appPc = "exec"
  /\ executed' = TRUE
  /\ adapterSt' = IF adapterSt = "open" THEN "closed" ELSE adapterSt
  /\ CASE outcome = "ok" ->
            /\ status' = "success"
            /\ appPc' = "render"
            /\ UNCHANGED <<out, failure>>
       [] outcome = "MagiException" ->
            /\ status' = "empty"
            /\ Abort("execute", "error:MagiException")
       [] outcome = "Exception" ->
            /\ status' = "empty"
            /\ Abort("execute", "error:Unexpected error")
  /\ UNCHANGED <<runs, apiKey, prompt, modelSel, streamingOn, files,
                 attachments, env, envAtStart, filesAtStart, configEnv,
                 engineBuilt, bridgeVars, queryVars, resultVars, callVars>>

\* Lines 428-454: the five result sections, in order.
Render ==
  /\ appPc = "render"
  /\ out' = out \o ResultSections
  /\ appPc' = "done"
  /\ UNCHANGED <<runs, apiKey, prompt, modelSel, streamingOn, files,
                 attachments, env, envAtStart, filesAtStart, status,
                 configEnv, engineBuilt, executed, adapterSt, failure,
                 bridgeVars, queryVars, resultVars, callVars>>

NextApp ==
  \/ Rerun
  \/ \E k \in ApiKeys, p \in Prompts, m \in Models, st \in BOOLEAN :
       RunStart(k, p, m, st)
  \/ Validate
  \/ Attach
  \/ \E i \in 1..MaxFiles, call \in AttachCalls : AttachRaises(i, call)
  \/ SetEnv
  \/ \E outcome \in Outcomes : MakeConfig(outcome)
  \/ PrepareStreaming
  \/ \E outcome \in Outcomes : BuildEngine(outcome)
  \/ \E outcome \in Outcomes : Execute(outcome)
  \/ Render

SpecApp == InitWithApp /\ [][NextApp]_vars

\* ------------------------------------------------------------------ text
\* A text is a sequence of pieces: every character of free text is a piece
\* of its own, and a literal of the source that holds none of the
\* characters the functions below look for is written as one piece.

LowerToUpper ==
  [a |-> "A", b |-> "B", c |-> "C", d |-> "D", e |-> "E", f |-> "F",
   g |-> "G", h |-> "H", i |-> "I", j |-> "J", k |-> "K", l |-> "L",
   m |-> "M", n |-> "N", o |-> "O", p |-> "P", q |-> "Q", r |-> "R",
   s |-> "S", t |-> "T", u |-> "U", v |-> "V", w |-> "W", x |-> "X",
   y |-> "Y", z |-> "Z"]

UpperChar(ch) == IF ch \in DOMAIN LowerToUpper THEN LowerToUpper[ch] ELSE ch

\* A variant of str.upper() that leaves the text as it is.
UpperNothing(s) == s

\* str.upper().
Upper(s) == [i \in 1..Len(s) |-> UpperChar(s[i])]

\* str.replace(ch, by) for a one-character ch.
RECURSIVE Replace(_, _, _)
Replace(s, ch, by) ==
  IF s = <<>> THEN <<>>
  ELSE (IF Head(s) = ch THEN by ELSE <<Head(s)>>) \o Replace(Tail(s), ch, by)

\* sep.join(parts).
RECURSIVE Join(_, _)
Join(parts, sep) ==
  IF parts = <<>> THEN <<>>
  ELSE IF Len(parts) = 1 THEN parts[1]
  ELSE parts[1] \o sep \o Join(Tail(parts), sep)

\* html.escape(s) with quote=True: "&" first, then "<", ">" and the two
\* quote characters.
html_escape(s) ==
  Replace(Replace(Replace(Replace(Replace(s,
    "&", <<"&", "a", "m", "p", ";">>),
    "<", <<"&", "l", "t", ";">>),
    ">", <<"&", "g", "t", ";">>),
    "\"", <<"&", "q", "u", "o", "t", ";">>),
    "'", <<"&", "#", "x", "2", "7", ";">>)

\* ------------------------------------------------------------- renderer
\* What one st.markdown or st.table call was handed.
Fragment(kind, css, title, body, rows, html) ==
  [kind |-> kind, css |-> css, title |-> title, body |-> body,
   rows |-> rows, unsafe_allow_html |-> html]

\* st.markdown("<div class='section-title'>...</div>"), app.py lines
\* 432-453.
SectionTitle(name) == Fragment("section-title", "", <<name>>, <<>>, <<>>, TRUE)

\* _render_persona_block, app.py lines 123-132.
render_persona_block(title, css_class, content) ==
  Fragment("persona-card", css_class, title, html_escape(content), <<>>, TRUE)

\* A variant of _render_thinking that walks the map instead of
\* PERSONA_ORDER: one card per entry, in insertion order.
render_thinking_as_inserted(thinking) ==
  [i \in 1..Len(thinking) |->
     render_persona_block(<<PERSONA_LABELS(thinking[i].k.v)>>,
                          PERSONA_CLASSES(thinking[i].k.v),
                          thinking[i].v.content)]

\* _render_thinking, app.py lines 135-144.
render_thinking(thinking) ==
  [i \in 1..Len(PERSONA_ORDER) |->
     LET persona == PERSONA_ORDER[i]
         output == DictGet(thinking, PersonaKey(persona))
         content == IF output # <<>> THEN output[1].content
                                     ELSE <<"No output produced.">>
     IN render_persona_block(<<PERSONA_LABELS(persona)>>,
                             PERSONA_CLASSES(persona), content)]

\* PERSONA_LABELS.get(target, str(target)), app.py line 158 and report.py
\* line 116.
TargetLabel(target) ==
  IF \E p \in PersonaTypes : KeyEq(PersonaKey(p), target)
    THEN <<PERSONA_LABELS(CHOOSE p \in PersonaTypes :
                            KeyEq(PersonaKey(p), target))>>
    ELSE <<target.v>>

\* A variant of _render_debate_round that joins the responses by single
\* line breaks.
render_debate_round_lines(round_data) ==
  [i \in 1..Len(PERSONA_ORDER) |->
     LET persona == PERSONA_ORDER[i]
         output == DictGet(round_data.outputs, PersonaKey(persona))
         label == <<PERSONA_LABELS(persona)>>
         css_class == PERSONA_CLASSES(persona)
     IN IF output = <<>>
          THEN render_persona_block(label, css_class,
                                    <<"No response produced.">>)
          ELSE LET items == output[1].responses
                   responses ==
                     [j \in 1..Len(items) |->
                        <<"To ">> \o TargetLabel(items[j].k) \o <<": ">>
                          \o items[j].v]
                   content == IF responses # <<>>
                                THEN Join(responses, <<"\n">>)
                                ELSE <<"No responses generated.">>
               IN render_persona_block(label, css_class, content)]

\* _render_debate_round, app.py lines 147-161.
render_debate_round(round_data) ==
  [i \in 1..Len(PERSONA_ORDER) |->
     LET persona == PERSONA_ORDER[i]
         output == DictGet(round_data.outputs, PersonaKey(persona))
         label == <<PERSONA_LABELS(persona)>>
         css_class == PERSONA_CLASSES(persona)
     IN IF output = <<>>
          THEN render_persona_block(label, css_class,
                                    <<"No response produced.">>)
          ELSE LET items == output[1].responses
                   responses ==
                     [j \in 1..Len(items) |->
                        <<"To ">> \o TargetLabel(items[j].k) \o <<": ">>
                          \o items[j].v]
                   content == IF responses # <<>>
                                THEN Join(responses, <<"\n", "\n">>)
                                ELSE <<"No responses generated.">>
               IN render_persona_block(label, css_class, content)]

\* vote_output.vote.value if vote_output.vote else "N/A", app.py line 179.
VoteValue(vote_output) ==
  IF vote_output.vote # <<>> THEN vote_output.vote ELSE <<"N/A">>

\* A variant of the rows loop that follows the insertion order of the map.
voting_rows_as_inserted(voting) ==
  [i \in 1..Len(voting) |->
     [Persona |-> <<PERSONA_LABELS(voting[i].k.v)>>,
      Vote |-> Upper(VoteValue(voting[i].v)),
      Reason |-> voting[i].v.reason,
      Conditions |-> IF Truthy(voting[i].v.conditions)
                       THEN Join(voting[i].v.conditions.items,
                                 <<" ", "|", " ">>)
                       ELSE <<>>]]

\* The rows of _render_voting_table, app.py lines 166-190.
voting_rows(voting) ==
  [i \in 1..Len(PERSONA_ORDER) |->
     LET persona == PERSONA_ORDER[i]
         vote_output == DictGet(voting, PersonaKey(persona))
     IN IF vote_output = <<>>
          THEN [Persona |-> <<PERSONA_LABELS(persona)>>,
                Vote |-> <<"N/A">>,
                Reason |-> <<"No vote recorded.">>,
                Conditions |-> <<>>]
          ELSE [Persona |-> <<PERSONA_LABELS(persona)>>,
                Vote |-> Upper(VoteValue(vote_output[1])),
                Reason |-> vote_output[1].reason,
                Conditions |->
                  IF Truthy(vote_output[1].conditions)
                    THEN Join(vote_output[1].conditions.items,
                              <<" ", "|", " ">>)
                    ELSE <<>>]]

\* _render_voting_table, app.py lines 164-191: st.table(rows).
render_voting_table(voting) ==
  <<Fragment("table", "", <<>>, <<>>, voting_rows(voting), FALSE)>>

\* Decision.value of a member.
DecisionValue(d) ==
  CASE d = "approved" -> <<"a", "p", "p", "r", "o", "v", "e", "d">>
    [] d = "denied" -> <<"d", "e", "n", "i", "e", "d">>
    [] d = "conditional" ->
         <<"c", "o", "n", "d", "i", "t", "i", "o", "n", "a", "l">>

\* A variant of the condition items that shows each condition once.
RECURSIVE condition_items_once(_)
condition_items_once(items) ==
  IF items = <<>> THEN <<>>
  ELSE LET rest == condition_items_once(SubSeq(items, 1, Len(items) - 1))
           last == items[Len(items)]
       IN IF last \in Range(SubSeq(items, 1, Len(items) - 1))
            THEN rest
            ELSE Append(rest, last)

\* for item in conditions, app.py line 203 and report.py line 176.
condition_items(items) == items

\* _render_final_decision, app.py lines 194-204.
render_final_decision(decision, conditions) ==
  <<Fragment("decision-banner", DECISION_CLASSES(decision), <<>>,
             <<"Final Decision: ">> \o Upper(DecisionValue(decision)),
             <<>>, TRUE)>>
  \o (IF Truthy(conditions)
        THEN <<Fragment("decision-conditions", "", <<>>, <<"Conditions:">>,
                        <<>>, TRUE)>>
             \o [i \in 1..Len(condition_items(conditions.items)) |->
                   Fragment("condition-item", "", <<>>,
                            <<"- ">> \o condition_items(conditions.items)[i],
                            <<>>, FALSE)]
        ELSE <<>>)

\* The debate part of run_app, app.py lines 436-442.
RECURSIVE render_debate(_)
render_debate(rounds) ==
  IF rounds = <<>> THEN <<>>
  ELSE <<Fragment("expander", "", <<"Round ", rounds[1].round_number>>,
                  <<>>, <<>>, FALSE)>>
       \o render_debate_round(rounds[1])
       \o render_debate(Tail(rounds))

\* ----------------------------------------------------- report generator
\* _header, report.py lines 64-66 (the title, in Latin letters here).
Header == <<"# MAGI System report">>

\* _input_section, report.py lines 68-70; "fence" is the three-backquote
\* line that opens and closes the block.
InputSection(prompt_text) ==
  <<"## Input", "\n", "\n", "fence", "\n">> \o prompt_text
    \o <<"\n", "fence">>

\* _thinking_section, report.py lines 72-89.
ThinkingSection(res) ==
  LET thinking == res.thinking_results
      block(persona) ==
        LET output == DictGet(thinking, PersonaKey(persona))
        IN <<<<"### ", PERSONA_LABELS(persona)>>, <<>>,
             IF output # <<>> /\ output[1].content # <<>>
               THEN output[1].content
               ELSE <<"*No output produced.*">>,
             <<>>>>
      lines == <<<<"## Thinking Phase">>, <<>>>>
               \o block(PERSONA_ORDER[1]) \o block(PERSONA_ORDER[2])
               \o block(PERSONA_ORDER[3])
  IN Join(lines, <<"\n">>)

\* The lines of one persona in one round, report.py lines 103-125.
DebatePersonaLines(round_data, persona) ==
  LET output == DictGet(round_data.outputs, PersonaKey(persona))
      head == <<<<"#### ", PERSONA_LABELS(persona)>>>>
  IN IF output = <<>>
       THEN head \o <<<<>>, <<"*No response produced.*">>, <<>>>>
       ELSE LET items == output[1].responses
                responses ==
                  [j \in 1..Len(items) |->
                     <<"**To ">> \o TargetLabel(items[j].k) \o <<":** ">>
                       \o items[j].v]
            IN IF responses # <<>>
                 THEN head \o <<<<>>>> \o responses \o <<<<>>>>
                 ELSE head \o <<<<>>, <<"*No responses generated.*">>, <<>>>>

\* The lines of the rounds, report.py lines 99-125.
RECURSIVE DebateRoundLines(_)
DebateRoundLines(rounds) ==
  IF rounds = <<>> THEN <<>>
  ELSE <<<<"### Round ", rounds[1].round_number>>, <<>>>>
       \o DebatePersonaLines(rounds[1], PERSONA_ORDER[1])
       \o DebatePersonaLines(rounds[1], PERSONA_ORDER[2])
       \o DebatePersonaLines(rounds[1], PERSONA_ORDER[3])
       \o DebateRoundLines(Tail(rounds))

\* _debate_section, report.py lines 91-127.
DebateSection(res) ==
  IF res.debate_results = <<>>
    THEN <<"## Debate Phase", "\n", "\n",
           "*No debate rounds were produced.*">>
    ELSE Join(<<<<"## Debate Phase">>, <<>>>>
              \o DebateRoundLines(res.debate_results), <<"\n">>)

\* The row of one persona, report.py lines 139-156.
VotingRow(voting, persona) ==
  LET vote_output == DictGet(voting, PersonaKey(persona))
      label == PERSONA_LABELS(persona)
  IN IF vote_output = <<>>
       THEN <<"|", " ", label, " ", "|", " ", "N/A", " ", "|", " ",
              "No vote recorded.", " ", "|", " ", "|">>
       ELSE LET vote_value == Upper(VoteValue(vote_output[1]))
                reason == Replace(vote_output[1].reason, "|", <<"\\", "|">>)
                conditions ==
                  IF Truthy(vote_output[1].conditions)
                    THEN Replace(Join(vote_output[1].conditions.items,
                                      <<",", " ">>),
                                 "|", <<"\\", "|">>)
                    ELSE <<>>
            IN <<"|", " ", label, " ", "|", " ">> \o vote_value
               \o <<" ", "|", " ">> \o reason
               \o <<" ", "|", " ">> \o conditions \o <<" ", "|">>

\* _voting_section, report.py lines 129-158.
VotingSection(res) ==
  Join(<<<<"## Voting Phase">>, <<>>,
         <<"|", " Persona ", "|", " Vote ", "|", " Reason ", "|",
           " Conditions ", "|">>,
         <<"|", ":--------", "|", ":----:", "|", ":-------", "|",
           ":-----------", "|">>,
         VotingRow(res.voting_results, PERSONA_ORDER[1]),
         VotingRow(res.voting_results, PERSONA_ORDER[2]),
         VotingRow(res.voting_results, PERSONA_ORDER[3])>>,
       <<"\n">>)

\* _decision_section, report.py lines 160-179.
DecisionSection(res) ==
  LET head == <<<<"## Final Decision">>, <<>>,
                <<"**", DECISION_LABELS(res.final_decision), "**">>>>
      conditions == res.all_conditions
  IN Join(IF Truthy(conditions)
            THEN head \o <<<<>>, <<"### Conditions">>, <<>>>>
                 \o [i \in 1..Len(condition_items(conditions.items)) |->
                       <<"- ">> \o condition_items(conditions.items)[i]]
            ELSE head,
          <<"\n">>)

\* _footer, report.py lines 181-184; the timestamp is one piece.
Footer == <<"---", "\n", "\n", "*Generated by MAGI GUI at ", "timestamp", "*">>

\* A variant of filter(None, sections) that also drops a section holding
\* nothing but its sentinel.
FilterNoneAndSentinels(sections) ==
  SelectSeq(sections,
            LAMBDA sec : sec # <<>>
                         /\ "*No debate rounds were produced.*" \notin
                              Range(sec))

\* filter(None, sections), report.py line 62: the sections that are not the
\* empty string.
FilterNone(sections) == SelectSeq(sections, LAMBDA sec : sec # <<>>)

\* ReportGenerator.generate, report.py lines 47-62, and generate_report,
\* lines 187-198: the sections that are joined, and the joined document.
generate_report(res, prompt_text) ==
  LET sections == <<Header, InputSection(prompt_text), ThinkingSection(res),
                    DebateSection(res), VotingSection(res),
                    DecisionSection(res), Footer>>
  IN [sections |-> FilterNone(sections),
      text |-> Join(FilterNone(sections), <<"\n", "\n">>)]

\* --------------------------------------------- handling a result: actions
\* run_app lines 428-429.
NormalizeResult ==
  /\ rpc = "result"
  /\ LET t == normalize_thinking(result.thinking_results)
         v == normalize_votes(result.voting_results)
     IN /\ thinking_results' = t.normalized
        /\ voting_results' = v.normalized
        /\ normRaised' = (t.raised \/ v.raised)
        /\ rpc' = IF t.raised \/ v.raised THEN "escaped" ELSE "normalized"
  /\ UNCHANGED <<ptIsStr, result, resultIn, rprompt, screen, report,
                 bridgeVars, queryVars, appVars, callVars>>

\* run_app lines 431-450: the four result sections.
RenderResult ==
  /\ rpc = "normalized"
  /\ screen' = <<SectionTitle("Thinking")>>
               \o render_thinking(thinking_results)
               \o <<SectionTitle("Debate")>>
               \o (IF result.debate_results = <<>>
                     THEN <<Fragment("markdown", "", <<>>,
                                     <<"No debate rounds were produced.">>,
                                     <<>>, FALSE)>>
                     ELSE render_debate(result.debate_results))
               \o <<SectionTitle("Voting")>>
               \o render_voting_table(voting_results)
               \o <<SectionTitle("Final Decision")>>
               \o render_final_decision(result.final_decision,
                                        result.all_conditions)
  /\ rpc' = "rendered"
  /\ UNCHANGED <<ptIsStr, result, resultIn, rprompt, thinking_results,
                 voting_results, normRaised, report, bridgeVars, queryVars,
                 appVars, callVars>>

\* run_app lines 452-454 with _render_download_button, lines 207-218: the
\* report is generated from the result as the engine returned it.
DownloadReport ==
  /\ rpc = "rendered"
  /\ report' = generate_report(result, rprompt)
  /\ screen' = Append(Append(screen, SectionTitle("Export")),
                      Fragment("download_button", "", <<>>, <<>>, <<>>,
                               FALSE))
  /\ rpc' = "done"
  /\ UNCHANGED <<ptIsStr, result, resultIn, rprompt, thinking_results,
                 voting_results, normRaised, bridgeVars, queryVars, appVars, callVars>>

NextResult ==
  \/ NormalizeResult
  \/ RenderResult
  \/ DownloadReport

\* ------------------------------------------------ results the engine hands
\* Keys a per-persona map may arrive with: the members, their value
\* strings, a string that is no member's value, an object that is no string.
KeyChoices ==
  {PersonaKey(p) : p \in PersonaTypes}
    \cup {StrKey(PersonaValue(p)) : p \in PersonaTypes}
    \cup {StrKey("MELCHIOR"), IntKey}

\* The key sequences a dict can have: no two keys in the same slot.
KeyArrangements ==
  {ks \in UNION {[1..n -> KeyChoices] : n \in 0..MaxEntries} :
     \A i, j \in 1..Len(ks) : KeyEq(ks[i], ks[j]) => i = j}

\* Vote members, by their .value; <<>> stands for a vote that is None.
VoteValues ==
  {<<"a", "p", "p", "r", "o", "v", "e">>, <<"d", "e", "n", "y">>,
   <<"c", "o", "n", "d", "i", "t", "i", "o", "n", "a", "l">>}

\* The i-th value of a map under test: each entry has a content, or a
\* reason, of its own.
ThinkingAt(i) == [content |-> [j \in 1..i |-> "a"]]
VoteAt(i) ==
  [vote |-> <<"d", "e", "n", "y">>, reason |-> [j \in 1..i |-> "a"],
   conditions |-> NoList]

\* Results whose maps differ in their keys.
KeyResults ==
  {[EmptyResult EXCEPT
      !.thinking_results = [i \in 1..Len(ks) |->
                              [k |-> ks[i], v |-> ThinkingAt(i)]]] :
     ks \in KeyArrangements}
  \cup
  {[EmptyResult EXCEPT
      !.voting_results = [i \in 1..Len(ks) |->
                            [k |-> ks[i], v |-> VoteAt(i)]]] :
     ks \in KeyArrangements}

\* Characters of a reason text.
ReasonChars == {"a", "|", "\\", "\n"}
ReasonTexts == Texts(ReasonChars, MaxTextLen)

\* Condition strings of a vote.
CondTexts == {<<"c">>, <<"x", "|", "y">>, <<>>}

\* Condition lists of a vote: None, or up to MaxConds strings.
CondLists ==
  {NoList} \cup
  {ListOf(l) : l \in UNION {[1..n -> CondTexts] : n \in 0..MaxConds}}

\* The vote outputs whose fields are varied.
RichVotes ==
  {[vote |-> v, reason |-> r, conditions |-> NoList] :
     v \in VoteValues \cup {<<>>}, r \in ReasonTexts}
  \cup
  {[vote |-> <<"a", "p", "p", "r", "o", "v", "e">>, reason |-> <<"a">>,
    conditions |-> c] : c \in CondLists}

\* The vote output of the other personas.
PlainVote ==
  [vote |-> <<"d", "e", "n", "y">>, reason |-> <<"o", "k">>,
   conditions |-> ListOf(<<<<"c">>>>)]

\* The orders in which some of the personas were inserted into a map.
PersonaArrangements ==
  {ps \in UNION {[1..n -> PersonaTypes] : n \in 0..Len(PERSONA_ORDER)} :
     \A i, j \in 1..Len(ps) : ps[i] = ps[j] => i = j}

\* Results whose vote map is keyed by members: the first entry inserted
\* carries the varied vote output.
VoteResults ==
  {[EmptyResult EXCEPT
      !.voting_results =
         [i \in 1..Len(ps) |->
            [k |-> PersonaKey(ps[i]),
             v |-> IF i = 1 THEN rich ELSE PlainVote]]] :
     ps \in PersonaArrangements \ {<<>>}, rich \in RichVotes}
  \cup {EmptyResult}

\* Characters of a content text.
HtmlChars == {"a", "<", ">", "&", "\""}
HtmlTexts == Texts(HtmlChars, MaxTextLen)

\* Thinking maps keyed by members, one content varied.
ThinkingChoices ==
  {<<>>}
  \cup {<<[k |-> PersonaKey("MELCHIOR"), v |-> [content |-> c]]>> :
          c \in HtmlTexts}
  \cup {<<[k |-> PersonaKey("CASPER"), v |-> [content |-> <<"o", "k">>]],
          [k |-> PersonaKey("MELCHIOR"), v |-> [content |-> c]]>> :
          c \in HtmlTexts}

\* Debate results: none, one round, one round keyed by strings, two rounds.
DebateChoices ==
  LET r1 == [round_number |-> "1",
             outputs |->
               <<[k |-> PersonaKey("MELCHIOR"),
                  v |-> [responses |->
                           <<[k |-> PersonaKey("BALTHASAR"),
                              v |-> <<"<", "b", ">">>],
                             [k |-> PersonaKey("CASPER"), v |-> <<"a">>]>>]],
                 [k |-> PersonaKey("BALTHASAR"),
                  v |-> [responses |-> <<>>]]>>]
      r2 == [round_number |-> "2",
             outputs |->
               <<[k |-> StrKey("casper"),
                  v |-> [responses |->
                           <<[k |-> StrKey("melchior"), v |-> <<"&">>],
                             [k |-> IntKey, v |-> <<"a">>]>>]]>>]
  IN {<<>>, <<r1>>, <<r2>>, <<r1, r2>>}

\* Strings of the merged conditions list.
DecisionCondTexts == {<<"a">>, <<"<", "b", ">">>}

\* all_conditions: None, or up to MaxConds strings, repeats included.
DecisionCondLists ==
  {NoList} \cup
  {ListOf(l) : l \in UNION {[1..n -> DecisionCondTexts] : n \in 0..MaxConds}}

\* Results whose texts are varied: the thinking contents, or the debate,
\* the decision and the merged conditions.
TextResults ==
  {[EmptyResult EXCEPT !.thinking_results = t] : t \in ThinkingChoices}
  \cup
  {[EmptyResult EXCEPT !.debate_results = d, !.final_decision = dec,
                       !.all_conditions = c] :
     d \in DebateChoices, dec \in Decisions, c \in DecisionCondLists}

\* The engine has returned res for the prompt p: run_app line 416.
InputResult(res, p) ==
  /\ result = res
  /\ resultIn = res
  /\ rprompt = p
  /\ rpc = "result"
  /\ thinking_results = <<>>
  /\ voting_results = <<>>
  /\ normRaised = FALSE
  /\ screen = <<>>
  /\ report = [sections |-> <<>>, text |-> <<>>]

InitKeys ==
  /\ InitBridge
  /\ InitApp
  /\ InitNoCalls
  /\ files = <<>>
  /\ env = [n \in EnvNames |-> "unset"]
  /\ ptIsStr \in BOOLEAN
  /\ \E res \in KeyResults : InputResult(res, <<>>)

InitVotes ==
  /\ InitBridge
  /\ InitApp
  /\ InitNoCalls
  /\ files = <<>>
  /\ env = [n \in EnvNames |-> "unset"]
  /\ ptIsStr \in BOOLEAN
  /\ \E res \in VoteResults : InputResult(res, <<>>)

InitTexts ==
  /\ InitBridge
  /\ InitApp
  /\ InitNoCalls
  /\ files = <<>>
  /\ env = [n \in EnvNames |-> "unset"]
  /\ ptIsStr \in BOOLEAN
  /\ \E res \in TextResults, p \in Prompts : InputResult(res, p)

SpecKeys == InitKeys /\ [][NextResult]_vars

SpecVotes == InitVotes /\ [][NextResult]_vars

SpecTexts == InitTexts /\ [][NextResult]_vars

\* ------------------------------------------------------ naming the report
\* A caller calls generate_filename; _render_download_button (app.py line
\* 210) passes no timestamp.
GenerateFilename(p, ts) ==
  /\ Len(fnCalls) < MaxCalls
  /\ fnCalls' = Append(fnCalls,
                       [prompt |-> p, timestamp |-> ts, now |-> clock,
                        name |-> generate_filename(p, ts, clock)])
  /\ UNCHANGED <<clock, exc, raisedIn, shown, engineOut, adapterGiven, inFlight,
                 closeCalls, xpc, bridgeVars, queryVars, appVars,
                 resultVars>>

\* Time passes: datetime.now() returns a later value.
ClockTick ==
  /\ \E i \in 1..(Len(Timestamps) - 1) :
       /\ clock = Timestamps[i]
       /\ clock' = Timestamps[i + 1]
  /\ UNCHANGED <<fnCalls, exc, raisedIn, shown, engineOut, adapterGiven,
                 inFlight, closeCalls, xpc, bridgeVars, queryVars, appVars,
                 resultVars>>

NextFilename ==
  \/ \E p \in Prompts, ts \in {<<>>} \cup {<<Timestamps[i]>> :
                                             i \in 1..Len(Timestamps)} :
       GenerateFilename(p, ts)
  \/ ClockTick

InitFilename ==
  /\ InitBridge
  /\ InitApp
  /\ InitNoResult
  /\ files = <<>>
  /\ env = [n \in EnvNames |-> "unset"]
  /\ clock \in Range(Timestamps)
  /\ fnCalls = <<>>
  /\ exc = NoOutcome
  /\ raisedIn = "none"
  /\ shown = <<>>
  /\ engineOut = NoOutcome
  /\ adapterGiven = FALSE
  /\ inFlight = NoOutcome
  /\ closeCalls = 0
  /\ xpc = "none"

SpecFilename == InitFilename /\ [][NextFilename]_vars

\* ------------------------------------------------------ showing an error
\* One of the guarded calls of run_app raised exc; the matching handler
\* shows its message.
HandleFailure ==
  /\ raisedIn \in Stages
  /\ shown = <<>>
  /\ shown' = handler_message(raisedIn, exc)
  /\ UNCHANGED <<clock, fnCalls, exc, raisedIn, engineOut, adapterGiven,
                 inFlight, closeCalls, xpc, bridgeVars, queryVars, appVars,
                 resultVars>>

NextErrors == HandleFailure

InitErrors ==
  /\ InitBridge
  /\ InitApp
  /\ InitNoResult
  /\ files = <<>>
  /\ env = [n \in EnvNames |-> "unset"]
  /\ clock = Timestamps[1]
  /\ fnCalls = <<>>
  /\ exc \in Exceptions
  /\ raisedIn \in Stages
  /\ shown = <<>>
  /\ engineOut = NoOutcome
  /\ adapterGiven = FALSE
  /\ inFlight = NoOutcome
  /\ closeCalls = 0
  /\ xpc = "none"

SpecErrors == InitErrors /\ [][NextErrors]_vars

\* -------------------------------------------------------- _execute_async
\* Line 85: engine.execute is awaited; it returns or raises.
AwaitExecute ==
  /\ xpc = "call"
  /\ inFlight' = engineOut
  /\ xpc' = "finally"
  /\ UNCHANGED <<clock, fnCalls, exc, raisedIn, shown, engineOut, adapterGiven,
                 closeCalls, bridgeVars, queryVars, appVars, resultVars>>

\* Lines 86-88: the finally clause.  An exception raised inside it would
\* take the place of what execute returned or raised.
FinallyClause ==
  /\ xpc = "finally"
  /\ IF closes_in_finally(adapterGiven, inFlight)
       THEN /\ closeCalls' = closeCalls + 1
            /\ inFlight' = IF AcloseOutcome = "returns"
                             THEN inFlight
                             ELSE [kind |-> "raises", value |-> "aclose"]
       ELSE UNCHANGED <<closeCalls, inFlight>>
  /\ xpc' = "leave"
  /\ UNCHANGED <<clock, fnCalls, exc, raisedIn, shown, engineOut, adapterGiven,
                 bridgeVars, queryVars, appVars, resultVars>>

\* Line 90: asyncio.run hands what _run returned or raised to the caller.
LeaveExecute ==
  /\ xpc = "leave"
  /\ xpc' = "left"
  /\ UNCHANGED <<clock, fnCalls, exc, raisedIn, shown, engineOut, adapterGiven,
                 inFlight, closeCalls, bridgeVars, queryVars, appVars,
                 resultVars>>

NextExecute ==
  \/ AwaitExecute
  \/ FinallyClause
  \/ LeaveExecute

InitExecute ==
  /\ InitBridge
  /\ InitApp
  /\ InitNoResult
  /\ files = <<>>
  /\ env = [n \in EnvNames |-> "unset"]
  /\ clock = Timestamps[1]
  /\ fnCalls = <<>>
  /\ exc = NoOutcome
  /\ raisedIn = "none"
  /\ shown = <<>>
  /\ engineOut \in ExecuteOutcomes
  /\ adapterGiven \in BOOLEAN
  /\ inFlight = NoOutcome
  /\ closeCalls = 0
  /\ xpc = "call"

SpecExecute == InitExecute /\ [][NextExecute]_vars

\* ------------------------------------------------------- claims: bridge
RECURSIVE IsSubseq(_, _)
\* s can be obtained from t by deleting elements.
IsSubseq(s, t) ==
  IF s = <<>> THEN TRUE
  ELSE IF t = <<>> THEN FALSE
  ELSE IF Head(s) = Head(t) THEN IsSubseq(Tail(s), Tail(t))
  ELSE IsSubseq(s, Tail(t))

IsPrefix(s, t) == Len(s) <= Len(t) /\ SubSeq(t, 1, Len(s)) = s

NoDuplicates(s) == \A i, j \in 1..Len(s) : i # j => s[i] # s[j]

\* The on_chunk invocations made for chunks emitted through emitter e.
DeliveredOf(e) == SelectSeq(cbSeq, LAMBDA c : c \in Range(submitted[e]))

\* An emit() on e is waiting for room.
Waiting(e) == IF pending # NoPending /\ pending.e = e THEN 1 ELSE 0

\* Chunks emitted through e that were discarded on timeout.
Discarded(e) == Len(submitted[e]) - Len(enq[e]) - Waiting(e)

\* Nothing of e is in flight: its queue is drained and its task is idle.
Quiescent(e) == queue[e] = <<>> /\ wpc[e] = "idle" /\ Waiting(e) = 0

\* C1: when the producer has emitted N chunks through an emitter and N does
\* not exceed the queue capacity (which covers N below capacity), no emit
\* waits or is dropped, the callback sees the chunks of that emitter in
\* submission order, and once the emitter is drained the callback has been
\* invoked for exactly those N chunks; the adapter's dropped reads 0 for
\* its current emitter.
C1_NoOverflowDelivery ==
  \A e \in Emitters :
    (e <= emitterCur /\ Len(submitted[e]) <= QueueSize) =>
      /\ eDropped[e] = 0
      /\ Waiting(e) = 0
      /\ IsPrefix(DeliveredOf(e), submitted[e])
      /\ (e = emitterCur => dropped = 0)
      /\ (Quiescent(e) /\ ~eClosed[e] => DeliveredOf(e) = submitted[e])

C1_Witness ==
  \E e \in Emitters :
    /\ e = emitterCur
    /\ ~eClosed[e]
    /\ Quiescent(e)
    /\ Len(submitted[e]) >= 1
    /\ Len(submitted[e]) < QueueSize
    /\ \E i \in 1..Len(submitted[e]) : Lower(submitted[e][i].phase) \notin PhaseKeys
    /\ DeliveredOf(e) = submitted[e]
    /\ dropped = 0

\* C2: per emitter the callback sees the enqueued chunks in enqueue order,
\* without gaps or repeats, and at most one callback invocation is in
\* progress at any time.
C2_FifoOneAtATime ==
  /\ \A e \in Emitters : IsPrefix(DeliveredOf(e), enq[e])
  /\ Cardinality({e \in Emitters : wpc[e] = "callback"}) <= 1
  /\ Len(cbSeq) - cbDone \in {0, 1}

C2_Witness ==
  \E e \in Emitters :
    /\ wpc[e] = "callback"
    /\ Len(DeliveredOf(e)) = 2
    /\ \E f \in Emitters : f # e /\ queue[f] # <<>> /\ ~eClosed[f]

\* C3: a chunk that finds the queue full either enters when room appears
\* or is discarded on timeout, which increments dropped; the waiting
\* producer can always proceed; the chunks delivered are an
\* order-preserving subsequence of the chunks emitted, none delivered
\* twice, and a discarded chunk is never delivered.
C3_OverflowDrops ==
  /\ \A e \in Emitters :
       /\ eDropped[e] = Discarded(e)
       /\ IsSubseq(DeliveredOf(e), submitted[e])
       /\ NoDuplicates(DeliveredOf(e))
       /\ Range(DeliveredOf(e)) \subseteq Range(enq[e])
  /\ (emitterCur # 0 /\ Discarded(emitterCur) > 0 => dropped > 0)
  /\ (pending # NoPending /\ LoopIdle =>
        (ENABLED EmitResume) \/ (ENABLED EmitTimeout))

C3_Witness ==
  \E e \in Emitters :
    /\ e = emitterCur
    /\ Len(submitted[e]) > QueueSize
    /\ dropped > 0
    /\ Len(DeliveredOf(e)) = QueueSize
    /\ DeliveredOf(e) = SubSeq(submitted[e], 1, QueueSize)

\* The chunk is in the history list of its phase.
InHistory(c) ==
  Lower(c.phase) \in DOMAIN chunks /\ c \in Range(chunks[Lower(c.phase)])

C5_NoCallbackAfterAnyClose ==
  [][closeReturned => cbSeq' = cbSeq]_vars

\* C5, amended: once close() has returned, on_chunk is never invoked again
\* for a chunk of the emitter that was current when close() was called; and
\* close() never fails, whether or not an emitter exists or chunks were
\* produced.
C5_NoCallbackAfterClose ==
  /\ [](~closeFailed)
  /\ [][\A e \in closedBy : DeliveredOf(e)' = DeliveredOf(e)]_vars

C5_Witness ==
  \E e \in closedBy :
    /\ eClosed[e]
    /\ Len(DeliveredOf(e)) >= 1
    /\ Len(enq[e]) > Len(DeliveredOf(e))
    /\ LoopIdle

\* C8 as stated: dropped never decreases over the lifetime of the adapter.
C8_DroppedNeverDecreases ==
  [][dropped' >= dropped]_vars

\* C8, amended: dropped reads 0 while no emitter exists and right after
\* every create_emitter(), otherwise the number of chunks the current
\* emitter has discarded; it never decreases while the current emitter
\* stays the same.
C8_DroppedOfCurrentEmitter ==
  /\ [](/\ (emitterCur = 0 => dropped = 0)
        /\ (emitterCur # 0 => dropped = Discarded(emitterCur)))
  /\ [][/\ (emitterCur' # emitterCur => dropped' = 0)
        /\ (emitterCur' = emitterCur => dropped' >= dropped)]_vars

C8_Witness ==
  /\ emitterCur # 0
  /\ dropped > 0
  /\ dropped = Discarded(emitterCur)

\* ------------------------------------------------------ claims: history
\* The processed chunks whose lower-cased phase is the lower-cased p, in
\* arrival order.
ArrivedInPhase(p) ==
  SelectSeq(processed, LAMBDA c : Lower(c.phase) = Lower(p))

\* What the two query methods return for phase p, against the arrivals.
QueriesMatchArrivals(p) ==
  /\ Deref(get_chunks_by_phase(p)) = ArrivedInPhase(p)
  /\ \A persona \in PersonaTypes :
       Deref(get_chunks_by_persona(persona, p)) =
         SelectSeq(ArrivedInPhase(p),
                   LAMBDA c : c.persona = PersonaValue(persona))

\* C6, first half as stated: a list a query returned holds what it held
\* when it was returned (plus what its caller put into it), whatever is
\* processed later.
C6_ReturnedListStable ==
  ret # NoRef => Deref(ret) = retExpect

\* C6, second half as stated: whatever a caller does to a returned list,
\* each history list holds exactly the processed chunks of its phase.
C6_HistoryUntouchedByCaller ==
  \A k \in PhaseKeys : chunks[k] = ArrivedInPhase(k)

\* C6 as stated: both queries return point-in-time snapshots.
C6_Snapshots ==
  C6_ReturnedListStable /\ C6_HistoryUntouchedByCaller

\* C7 as stated: for every phase argument p, in any spelling.
C7_QueriesMatchForAnyPhase ==
  \A p \in PhaseSpellings : QueriesMatchArrivals(p)

\* C7, amended: for every p whose lower-cased form is thinking, debate or
\* voting, in any letter-casing, get_chunks_by_phase(p) is the
\* arrival-ordered sequence of processed chunks whose lower-cased phase is
\* the lower-cased p, and get_chunks_by_persona(persona, p) is its
\* subsequence with chunk.persona equal to persona.value.
C7_QueriesMatchForKnownPhase ==
  \A p \in PhaseSpellings : Lower(p) \in PhaseKeys => QueriesMatchArrivals(p)

C7_Witness ==
  /\ Len(chunks[PhDebate]) >= 2
  /\ \E i, j \in 1..Len(chunks[PhDebate]) :
       /\ i < j
       /\ chunks[PhDebate][i].phase # chunks[PhDebate][j].phase
       /\ chunks[PhDebate][i].persona # chunks[PhDebate][j].persona
  /\ Len(Deref(get_chunks_by_persona("MELCHIOR", PhDebateUpper))) = 1
  /\ \E i \in 1..Len(processed) : Lower(processed[i].phase) \notin PhaseKeys

\* ------------------------------------------------------ claims: run_app
\* The run was started with input that validation must reject.
InvalidInput ==
  \/ apiKey = ""
  \/ Strip(prompt) = <<>>
  \/ \E i \in 1..Len(filesAtStart) : filesAtStart[i].size > MaxFileBytes

\* During and after a run on invalid input no configuration object was
\* constructed, no engine built, execute not called, no adapter created
\* and os.environ is as the run found it.
NoEngineWorkOnInvalidInput ==
  (appPc # "idle" /\ InvalidInput) =>
    /\ configEnv = "none"
    /\ ~engineBuilt
    /\ ~executed
    /\ adapterSt = "none"
    /\ env = envAtStart
    /\ appPc \in {"validate", "attach", "done", "escaped"}

\* C9 as stated: a run on invalid input shows an error and returns before
\* the configuration, the engine and execute, and retains no partial
\* state: os.environ and the uploaded files are as the run found them.
C9_ValidationLeavesNothing ==
  /\ NoEngineWorkOnInvalidInput
  /\ (appPc = "done" /\ InvalidInput) =>
       /\ Len(out) = 1
       /\ out[1] \in {"error:api_key", "error:prompt", "error:file_size"}
       /\ attachments = "none"
       /\ files = filesAtStart

\* C10 as stated: a finished run shows either all five result sections
\* and no error, or the error message and nothing else.
C10_AllOrNothing ==
  appPc = "done" =>
    \/ /\ failure = "none"
       /\ IsSubseq(ResultSections, out)
       /\ \A i \in 1..Len(out) : out[i] \notin ErrorItems
    \/ /\ failure # "none"
       /\ Len(out) = 1
       /\ out[1] \in ErrorItems

\* A failure of Config(...), _build_engine or execute (with the adapter's
\* close() in its finally clause) ends the run with a message as the last
\* thing shown.
CaughtFailuresShowMessage ==
  (appPc = "done" /\ failure \in {"config", "engine", "execute"}) =>
    /\ out # <<>>
    /\ out[Len(out)] \in ErrorItems

\* C11 as stated: whichever of configuration construction, engine
\* construction, engine execution or attachment conversion raises, the run
\* ends normally with a message shown; no exception leaves run_app.
C11_NothingEscapes ==
  /\ appPc # "escaped"
  /\ CaughtFailuresShowMessage

\* ----------------------------------------------- claims: handling a result
\* The lines of a text: str.split("\n").
RECURSIVE SplitLines(_)
SplitLines(text) ==
  IF \A i \in 1..Len(text) : text[i] # "\n" THEN <<text>>
  ELSE LET i == CHOOSE i \in 1..Len(text) :
                  /\ text[i] = "\n"
                  /\ \A j \in 1..(i - 1) : text[j] # "\n"
       IN <<SubSeq(text, 1, i - 1)>>
          \o SplitLines(SubSeq(text, i + 1, Len(text)))

\* Position of persona p in the canonical order.
OrderIndex(p) == CHOOSE i \in 1..Len(PERSONA_ORDER) : PERSONA_ORDER[i] = p

\* The persona cards of the on-screen thinking section: the three
\* fragments after its title.
ThinkingCard(p) == screen[1 + OrderIndex(p)]

\* The table handed to st.table.
VotingTable ==
  LET i == CHOOSE i \in 1..Len(screen) : screen[i].kind = "table"
  IN screen[i].rows

\* The sections of the report, by position.
ReportThinking == report.sections[3]
ReportDebate == report.sections[4]
ReportVoting == report.sections[5]
ReportDecision == report.sections[6]

\* The row of persona p in the report's voting table: the lines after the
\* heading, the blank line and the two header lines.
ReportRow(p) == SplitLines(ReportVoting)[4 + OrderIndex(p)]

\* The row the report shows for a persona without a vote.
ReportAbsentRow(p) ==
  <<"|", " ", PERSONA_LABELS(p), " ", "|", " ", "N/A", " ", "|", " ",
    "No vote recorded.", " ", "|", " ", "|">>

\* The row the screen shows for a persona without a vote.
ScreenAbsentRow(p) ==
  [Persona |-> <<PERSONA_LABELS(p)>>, Vote |-> <<"N/A">>,
   Reason |-> <<"No vote recorded.">>, Conditions |-> <<>>]

\* The personas each output shows an entry for.
ScreenThinkingPresent ==
  {p \in PersonaTypes : ThinkingCard(p).body # <<"No output produced.">>}
ReportThinkingPresent ==
  {p \in PersonaTypes :
     SplitLines(ReportThinking)[4 * OrderIndex(p) + 1]
       # <<"*No output produced.*">>}
ScreenVotesPresent ==
  {p \in PersonaTypes : VotingTable[OrderIndex(p)] # ScreenAbsentRow(p)}
ReportVotesPresent ==
  {p \in PersonaTypes : ReportRow(p) # ReportAbsentRow(p)}

\* C12 as stated: for any result, the report and the screen treat the same
\* personas as present in the thinking and in the voting section, whether
\* the engine keyed its maps by members or by their value strings.
C12_SamePersonasPresent ==
  rpc = "done" =>
    /\ ScreenThinkingPresent = ReportThinkingPresent
    /\ ScreenVotesPresent = ReportVotesPresent

\* Where PersonaType has str as a base, a member and its value string are
\* one dict key, and the two outputs agree.
SamePersonasWhereMembersAreStrings == ptIsStr => C12_SamePersonasPresent

\* Where every key is a member, the two outputs agree.
SamePersonasForMemberKeys ==
  (/\ \A i \in 1..Len(resultIn.thinking_results) :
        resultIn.thinking_results[i].k.t = "PersonaType"
   /\ \A i \in 1..Len(resultIn.voting_results) :
        resultIn.voting_results[i].k.t = "PersonaType")
  => C12_SamePersonasPresent

\* The key denotes a persona: it is a member, or a member's value string.
Denotes(k) ==
  \/ k.t = "PersonaType"
  \/ k.t = "str" /\ \E p \in PersonaTypes : PersonaValue(p) = k.v

\* The map has one entry per persona, whichever way each is keyed.
OnePerPersona(m) ==
  /\ Len(m) = Len(PERSONA_ORDER)
  /\ \A i \in 1..Len(m) : Denotes(m[i].k)
  /\ \A p \in PersonaTypes :
       \E i \in 1..Len(m) : KeyString(m[i].k) = PersonaValue(p)

\* The same map keyed by members, and keyed by value strings.
MemberKeyed(m) ==
  [i \in 1..Len(m) |->
     [k |-> PersonaKey(CHOOSE p \in PersonaTypes :
                         PersonaValue(p) = KeyString(m[i].k)),
      v |-> m[i].v]]
StringKeyed(m) ==
  [i \in 1..Len(m) |-> [k |-> StrKey(KeyString(m[i].k)), v |-> m[i].v]]

AfterNormalize == rpc \in {"normalized", "rendered", "done"}

\* C13: for every persona map with one entry per persona, normalizing the
\* map keyed by value strings and normalizing the same map keyed by members
\* give equal maps, for _normalize_thinking and for _normalize_votes; the
\* maps run_app works with are these.
C13_SameNormalForBothKeyings ==
  AfterNormalize =>
    /\ OnePerPersona(result.thinking_results) =>
         LET s == normalize_thinking(StringKeyed(result.thinking_results))
             m == normalize_thinking(MemberKeyed(result.thinking_results))
         IN /\ ~s.raised /\ ~m.raised
            /\ DictEq(s.normalized, m.normalized)
            /\ DictEq(thinking_results, m.normalized)
            /\ Len(m.normalized) = Len(PERSONA_ORDER)
    /\ OnePerPersona(result.voting_results) =>
         LET s == normalize_votes(StringKeyed(result.voting_results))
             m == normalize_votes(MemberKeyed(result.voting_results))
         IN /\ ~s.raised /\ ~m.raised
            /\ DictEq(s.normalized, m.normalized)
            /\ DictEq(voting_results, m.normalized)
            /\ Len(m.normalized) = Len(PERSONA_ORDER)

\* A three-entry map keyed by value strings, inserted in another order than
\* the canonical one, has been normalized.
C13_Witness ==
  /\ rpc = "done"
  /\ OnePerPersona(result.thinking_results)
  /\ \A i \in 1..Len(result.thinking_results) :
       result.thinking_results[i].k.t = "str"
  /\ result.thinking_results[1].k.v = "casper"
  /\ Len(thinking_results) = Len(PERSONA_ORDER)

\* after holds exactly the entries of before whose key denotes a persona, each
\* under the member.
Normalized(before, after) ==
  /\ \A i \in 1..Len(after) : after[i].k.t = "PersonaType"
  /\ \A i, j \in 1..Len(after) : after[i].k = after[j].k => i = j
  /\ \A i \in 1..Len(after) :
       \E j \in 1..Len(before) :
         /\ Denotes(before[j].k)
         /\ KeyString(before[j].k) = KeyString(after[i].k)
         /\ before[j].v = after[i].v
  /\ \A j \in 1..Len(before) :
       Denotes(before[j].k) =>
         \E i \in 1..Len(after) : KeyString(after[i].k) = KeyString(before[j].k)
  /\ before = <<>> => after = <<>>

\* C14: for any input map the normalizers do not raise, return a map whose
\* keys are all members, drop every entry whose key denotes no persona,
\* return the empty map for the empty map, and leave the input as it was.
C14_NormalizeLossyAndTotal ==
  rpc # "result" =>
    /\ ~normRaised
    /\ rpc # "escaped"
    /\ Normalized(resultIn.thinking_results, thinking_results)
    /\ Normalized(resultIn.voting_results, voting_results)
    /\ result = resultIn

\* A map with a member's entry, a string that is no member's value and a
\* key that is no string has been normalized to the one entry.
C14_Witness ==
  /\ rpc = "done"
  /\ Len(resultIn.voting_results) = MaxEntries
  /\ \E i \in 1..Len(resultIn.voting_results) :
       resultIn.voting_results[i].k = IntKey
  /\ \E i \in 1..Len(resultIn.voting_results) :
       resultIn.voting_results[i].k = StrKey("MELCHIOR")
  /\ Len(voting_results) = 1

AfterRender == rpc \in {"rendered", "done"}

\* The personas the vote map handed by the engine has an entry for.
Voters == {resultIn.voting_results[i].k.v :
             i \in 1..Len(resultIn.voting_results)}

\* C15: the voting table has exactly three rows, in the order MELCHIOR,
\* BALTHASAR, CASPER whatever the insertion order of the vote map; a persona
\* absent from the map has the row N/A, "No vote recorded.", no conditions,
\* and every other row is a populated one, so that an empty map gives three
\* N/A rows and a map missing one persona exactly one.
C15_VotingTableCanonical ==
  AfterRender =>
    /\ Len(VotingTable) = 3
    /\ VotingTable[1].Persona = <<"MELCHIOR">>
    /\ VotingTable[2].Persona = <<"BALTHASAR">>
    /\ VotingTable[3].Persona = <<"CASPER">>
    /\ \A p \in PersonaTypes :
         (p \notin Voters) <=> (VotingTable[OrderIndex(p)] = ScreenAbsentRow(p))
    /\ Cardinality({i \in 1..3 :
                      /\ VotingTable[i].Vote = <<"N/A">>
                      /\ VotingTable[i].Reason = <<"No vote recorded.">>
                      /\ VotingTable[i].Conditions = <<>>})
         = 3 - Len(resultIn.voting_results)

\* A map that misses BALTHASAR and was filled CASPER first has been
\* rendered: one N/A row, in the middle.
C15_Witness ==
  /\ rpc = "done"
  /\ Len(resultIn.voting_results) = 2
  /\ resultIn.voting_results[1].k.v = "CASPER"
  /\ resultIn.voting_results[2].k.v = "MELCHIOR"
  /\ VotingTable[2] = ScreenAbsentRow("BALTHASAR")
  /\ VotingTable[1] # ScreenAbsentRow("MELCHIOR")

\* cell is the strings of items with sep between neighbours.
RECURSIVE IsJoin(_, _, _)
IsJoin(cell, items, sep) ==
  IF items = <<>> THEN cell = <<>>
  ELSE IF Len(items) = 1 THEN cell = items[1]
  ELSE /\ Len(cell) >= Len(items[1]) + Len(sep)
       /\ SubSeq(cell, 1, Len(items[1])) = items[1]
       /\ SubSeq(cell, Len(items[1]) + 1, Len(items[1]) + Len(sep)) = sep
       /\ IsJoin(SubSeq(cell, Len(items[1]) + Len(sep) + 1, Len(cell)),
                 Tail(items), sep)

\* The text with every backslash that stands before a pipe taken out.
RECURSIVE UnescapePipes(_)
UnescapePipes(text) ==
  IF text = <<>> THEN <<>>
  ELSE IF Len(text) >= 2 /\ text[1] = "\\" /\ text[2] = "|"
    THEN <<"|">> \o UnescapePipes(SubSeq(text, 3, Len(text)))
    ELSE <<text[1]>> \o UnescapePipes(Tail(text))

\* The items of a conditions list; None has none.
ItemsOf(l) == IF l.isNone THEN <<>> ELSE l.items

\* No reason text of the vote map breaks the line it is written to.
ReasonsOnOneLine ==
  \A i \in 1..Len(resultIn.voting_results) :
    "\n" \notin Range(resultIn.voting_results[i].v.reason)

\* The last cell of a report row is cell.
EndsWithCell(row, cell) ==
  /\ Len(row) >= Len(cell) + 5
  /\ SubSeq(row, Len(row) - Len(cell) - 4, Len(row))
       = <<" ", "|", " ">> \o cell \o <<" ", "|">>

\* C16: for a vote that is present the on-screen row shows the vote name in
\* upper case and the reason text as it is; the conditions cell is the
\* conditions joined with " | " on screen and with ", " in the report, and
\* is empty in both for an empty list and for None.
C16_VoteRowFormat ==
  rpc = "done" =>
    \A i \in 1..Len(resultIn.voting_results) :
      LET p == resultIn.voting_results[i].k.v
          vo == resultIn.voting_results[i].v
          row == VotingTable[OrderIndex(p)]
      IN /\ vo.vote # <<>> =>
              /\ Lower(row.Vote) = vo.vote
              /\ \A ch \in Range(row.Vote) : ch \notin DOMAIN LowerToUpper
         /\ row.Reason = vo.reason
         /\ IsJoin(row.Conditions, ItemsOf(vo.conditions), <<" ", "|", " ">>)
         /\ ReasonsOnOneLine =>
              \E n \in 0..Len(ReportRow(p)) :
                /\ n + 5 <= Len(ReportRow(p))
                /\ LET cell == SubSeq(ReportRow(p), Len(ReportRow(p)) - n - 1,
                                      Len(ReportRow(p)) - 2)
                   IN /\ EndsWithCell(ReportRow(p), cell)
                      /\ IsJoin(UnescapePipes(cell), ItemsOf(vo.conditions),
                                <<",", " ">>)

\* A vote with as many conditions as a list holds, one of them with a pipe
\* in it, has been rendered and reported.
C16_Witness ==
  /\ rpc = "done"
  /\ resultIn.voting_results # <<>>
  /\ resultIn.voting_results[1].v.vote # <<>>
  /\ Len(ItemsOf(resultIn.voting_results[1].v.conditions)) = MaxConds
  /\ \E j \in 1..MaxConds :
       "|" \in Range(resultIn.voting_results[1].v.conditions.items[j])
  /\ resultIn.voting_results[1].v.conditions.items[1] # <<>>

\* The backslashes that stand right before position i of a line.
RECURSIVE BackslashesBefore(_, _)
BackslashesBefore(line, i) ==
  IF i > 1 /\ line[i - 1] = "\\" THEN 1 + BackslashesBefore(line, i - 1) ELSE 0

\* The pipes of a line that Markdown reads as column delimiters: those
\* with an even number of backslashes before them.
UnescapedPipes(line) ==
  Cardinality({i \in 1..Len(line) :
                 line[i] = "|" /\ BackslashesBefore(line, i) % 2 = 0})

\* The voting section is a heading, a blank line, two header lines and one
\* line per persona with five delimiters.
TableIntact ==
  LET lines == SplitLines(ReportVoting)
  IN /\ Len(lines) = 4 + Len(PERSONA_ORDER)
     /\ \A i \in 5..(4 + Len(PERSONA_ORDER)) : UnescapedPipes(lines[i]) = 5

\* C20 as stated: for any reason text and any condition strings each
\* persona row of the report holds exactly the five unescaped delimiter
\* pipes and the table does not break.
C20_ReportTableIntact == rpc = "done" => TableIntact

\* No text of the vote map holds a backslash or a line break.
VoteTextsPlain ==
  \A i \in 1..Len(resultIn.voting_results) :
    LET vo == resultIn.voting_results[i].v
    IN /\ {"\\", "\n"} \cap Range(vo.reason) = {}
       /\ \A j \in 1..Len(ItemsOf(vo.conditions)) :
            {"\\", "\n"} \cap Range(vo.conditions.items[j]) = {}

\* For texts without backslash and line break the escaping of lines 149 and
\* 154 keeps the table whole, pipes in the texts included.
TableIntactForPlainTexts == (rpc = "done" /\ VoteTextsPlain) => TableIntact

StartsWith(text, pre) ==
  Len(text) >= Len(pre) /\ SubSeq(text, 1, Len(pre)) = pre

\* The character an entity at the start of the text stands for, with the
\* length of the entity; the first character itself otherwise.
EntityAt(text) ==
  CASE StartsWith(text, <<"&", "a", "m", "p", ";">>) -> <<"&", 5>>
    [] StartsWith(text, <<"&", "l", "t", ";">>) -> <<"<", 4>>
    [] StartsWith(text, <<"&", "g", "t", ";">>) -> <<">", 4>>
    [] StartsWith(text, <<"&", "q", "u", "o", "t", ";">>) -> <<"\"", 6>>
    [] StartsWith(text, <<"&", "#", "x", "2", "7", ";">>) -> <<"'", 6>>
    [] OTHER -> <<text[1], 1>>

\* The text a browser shows for an escaped text: every entity decoded, once.
RECURSIVE HtmlUnescape(_)
HtmlUnescape(text) ==
  IF text = <<>> THEN <<>>
  ELSE <<EntityAt(text)[1]>>
       \o HtmlUnescape(SubSeq(text, EntityAt(text)[2] + 1, Len(text)))

NoAngleBrackets(text) == "<" \notin Range(text) /\ ">" \notin Range(text)

\* Every persona card on screen is free of "<" and ">", and a thinking
\* card decodes to the content it was made from: escaped, and once.
CardsEscapedOnce ==
  AfterRender =>
    /\ \A i \in 1..Len(screen) :
         screen[i].kind = "persona-card" => NoAngleBrackets(screen[i].body)
    /\ \A i \in 1..Len(resultIn.thinking_results) :
         HtmlUnescape(ThinkingCard(resultIn.thinking_results[i].k.v).body)
           = resultIn.thinking_results[i].v.content

\* C17 as stated: no "<" or ">" of a free text appears unescaped in a
\* fragment the renderer emits for a persona card or for a condition item
\* of the final decision, and the escaping is applied exactly once.
C17_FreeTextEscaped ==
  /\ CardsEscapedOnce
  /\ AfterRender =>
       \A i \in 1..Len(screen) :
         screen[i].kind = "condition-item" => NoAngleBrackets(screen[i].body)

\* The fragments of the final decision: those after its section title, up
\* to the export section.
DecisionFragments ==
  LET first == CHOOSE i \in 1..Len(screen) :
                 screen[i] = SectionTitle("Final Decision")
      last == IF \E i \in 1..Len(screen) : screen[i] = SectionTitle("Export")
                THEN (CHOOSE i \in 1..Len(screen) :
                        screen[i] = SectionTitle("Export")) - 1
                ELSE Len(screen)
  IN SubSeq(screen, first + 1, last)

\* The class the claim maps a decision to.
ClassOfDecision(d) ==
  CASE d = "approved" -> "decision-approved"
    [] d = "denied" -> "decision-denied"
    [] d = "conditional" -> "decision-conditional"

\* C18: the banner carries the class mapped from the decision and shows the
\* decision name in upper case; the conditions part on screen and the
\* "Conditions" subheading of the report are there exactly when the
\* conditions list is not empty, with one item per condition in list order,
\* repeats kept; with no condition the banner is the only fragment.
C18_FinalDecision ==
  rpc = "done" =>
    LET items == ItemsOf(resultIn.all_conditions)
        frs == DecisionFragments
        lines == SplitLines(ReportDecision)
    IN /\ frs # <<>>
       /\ frs[1].kind = "decision-banner"
       /\ frs[1].css = ClassOfDecision(resultIn.final_decision)
       /\ Head(frs[1].body) = "Final Decision: "
       /\ Lower(Tail(frs[1].body)) = DecisionValue(resultIn.final_decision)
       /\ \A ch \in Range(frs[1].body) : ch \notin DOMAIN LowerToUpper
       /\ items = <<>> => Len(frs) = 1
       /\ items # <<>> =>
            /\ Len(frs) = 2 + Len(items)
            /\ frs[2].kind = "decision-conditions"
            /\ \A i \in 1..Len(items) :
                 /\ frs[2 + i].kind = "condition-item"
                 /\ frs[2 + i].body = <<"- ">> \o items[i]
       /\ (items # <<>>) <=> (<<"### Conditions">> \in Range(lines))
       /\ items = <<>> => Len(lines) = 3
       /\ items # <<>> =>
            /\ Len(lines) = 6 + Len(items)
            /\ lines[5] = <<"### Conditions">>
            /\ \A i \in 1..Len(items) : lines[6 + i] = <<"- ">> \o items[i]

\* A denied decision with a full conditions list that repeats a condition
\* has been rendered and reported.
C18_Witness ==
  /\ rpc = "done"
  /\ resultIn.final_decision = "denied"
  /\ Len(ItemsOf(resultIn.all_conditions)) = MaxConds
  /\ resultIn.all_conditions.items[1] = resultIn.all_conditions.items[2]
  /\ Len(DecisionFragments) = 2 + MaxConds

\* How often a piece occurs in a text.
CountPiece(text, piece) ==
  Cardinality({i \in 1..Len(text) : text[i] = piece})

\* The first pieces of the seven sections, in order.
SectionHeads ==
  <<"# MAGI System report", "## Input", "## Thinking Phase",
    "## Debate Phase", "## Voting Phase", "## Final Decision", "---">>

\* C19: for every result and prompt the report consists of header, input
\* echo, thinking, debate, voting, final decision and footer in this order,
\* each once; a phase without entries keeps its heading and shows a
\* sentinel: "No output produced" per persona, "No debate rounds were
\* produced", "No vote recorded" per persona.
C19_ReportSections ==
  rpc = "done" =>
    /\ Len(report.sections) = Len(SectionHeads)
    /\ \A i \in 1..Len(SectionHeads) :
         /\ report.sections[i] # <<>>
         /\ Head(report.sections[i]) = SectionHeads[i]
         /\ CountPiece(report.text, SectionHeads[i]) = 1
    /\ report.text = Join(report.sections, <<"\n", "\n">>)
    /\ StartsWith(SubSeq(report.sections[2], 6, Len(report.sections[2])),
                  rprompt)
    /\ resultIn.thinking_results = <<>> =>
         CountPiece(ReportThinking, "*No output produced.*") = 3
    /\ resultIn.debate_results = <<>> =>
         CountPiece(ReportDebate, "*No debate rounds were produced.*") = 1
    /\ resultIn.voting_results = <<>> =>
         CountPiece(ReportVoting, "No vote recorded.") = 3

\* A result with no thinking entry, no debate round and no vote has been
\* reported for a prompt that is not empty.
C19_Witness ==
  /\ rpc = "done"
  /\ resultIn.thinking_results = <<>>
  /\ resultIn.debate_results = <<>>
  /\ resultIn.voting_results = <<>>
  /\ rprompt # <<>>
  /\ Len(report.sections) = 7

\* ------------------------------------------------- claims: environment
\* The six variables hold the values of the run in progress.
EnvOfThisRun(e) ==
  /\ DOMAIN e = EnvNames
  /\ e["MAGI_DEFAULT_PROVIDER"] = "gemini"
  /\ e["MAGI_API_KEY"] = apiKey
  /\ e["MAGI_MODEL"] = modelSel
  /\ e["MAGI_GEMINI_API_KEY"] = apiKey
  /\ e["MAGI_GEMINI_MODEL"] = modelSel
  /\ e["MAGI_GEMINI_ENDPOINT"] = "https://generativelanguage.googleapis.com"

\* Config(...) was called in the last run that pressed the button.
ConfigConstructed ==
  \/ appPc \in {"stream", "build", "exec"}
  \/ failure \in {"config", "engine"}
  \/ executed

\* C22: in every run that passes input validation the six MAGI_* variables
\* hold the run's own values when its configuration object is constructed
\* and when its engine is built, whatever they held before the run.
C22_EnvBeforeConfig ==
  /\ ConfigConstructed => EnvOfThisRun(configEnv)
  /\ appPc \in {"config", "stream", "build", "exec", "render"}
       => EnvOfThisRun(env)
  /\ engineBuilt => EnvOfThisRun(env)

\* A second run, with another key and another model than the run before
\* it, has built its engine.
C22_Witness ==
  /\ runs = 2
  /\ engineBuilt
  /\ ConfigConstructed
  /\ envAtStart["MAGI_API_KEY"] \in ApiKeys \ {apiKey}
  /\ envAtStart["MAGI_MODEL"] \in Models \ {modelSel}

\* ---------------------------------------------- claims: adapter lifecycle
\* run_app has returned, or an exception has left it.
RunAppLeft == appPc \in {"done", "escaped"}

\* C26: on every path of run_app on which a streaming adapter was created,
\* the adapter is closed before run_app returns, the paths where engine
\* construction fails and where engine execution raises included.
C26_AdapterClosedOnReturn ==
  RunAppLeft => adapterSt # "open"

\* The adapter is closed on return from every run that reached
\* engine.execute, whether execute returned or raised.
AdapterClosedAfterExecute ==
  (RunAppLeft /\ executed) => adapterSt \in {"none", "closed"}

\* ------------------------------------------------ claims: uploaded files
\* C30: on every path through the attachment loop, the path that aborts on
\* an oversized later file included, every uploaded file is at read
\* position 0 when run_app returns, so the next run reads each file whole.
C30_FilesRewound ==
  RunAppLeft => \A i \in 1..Len(files) : files[i].pos = 0

\* The files are rewound on return from every run whose attachment loop
\* ran to its end.
FilesRewoundAfterFullLoop ==
  (RunAppLeft /\ failure \in {"none", "config", "engine", "execute"})
    => \A i \in 1..Len(files) : files[i].pos = 0

\* --------------------------------------------- claims: thinking, debate
\* The canonical order and the labels, as the claims state them.
CanonicalLabels == <<"MELCHIOR", "BALTHASAR", "CASPER">>

\* The contents the map m holds for the persona labelled l.
ContentsFor(m, l) ==
  {m[j].v.content : j \in {i \in 1..Len(m) : m[i].k = PersonaKey(l)}}

\* The block of the i-th persona in the thinking section of the report:
\* its heading line and its text line.
ReportThinkingBlock(i) ==
  LET lines == SplitLines(ReportThinking)
  IN [heading |-> lines[4 * i - 1], text |-> lines[4 * i + 1]]

\* The thinking phase on screen: the fragments between the "Thinking" and
\* the "Debate" titles are three persona cards in canonical order, each
\* showing the content of its persona's entry in the map handed to the
\* renderer, or the placeholder when the map has no such entry.
ThinkingBlocksOnScreen ==
  /\ screen[1] = SectionTitle("Thinking")
  /\ screen[2 + Len(CanonicalLabels)] = SectionTitle("Debate")
  /\ \A i \in 1..Len(CanonicalLabels) :
       LET card == screen[1 + i]
           contents == ContentsFor(thinking_results, CanonicalLabels[i])
       IN /\ card.kind = "persona-card"
          /\ card.title = <<CanonicalLabels[i]>>
          /\ IF contents = {}
               THEN card.body = <<"No output produced.">>
               ELSE HtmlUnescape(card.body) \in contents

\* The thinking phase in the report: three headed blocks in canonical
\* order, each with a content the result holds for a key that denotes a
\* persona, or the placeholder; the placeholder when the result has no
\* entry at all.
ThinkingBlocksInReport ==
  /\ Len(SplitLines(ReportThinking)) = 2 + 4 * Len(CanonicalLabels)
  /\ \A i \in 1..Len(CanonicalLabels) :
       /\ ReportThinkingBlock(i).heading = <<"### ", CanonicalLabels[i]>>
       /\ \/ ReportThinkingBlock(i).text = <<"*No output produced.*">>
          \/ \E j \in 1..Len(resultIn.thinking_results) :
               /\ Denotes(resultIn.thinking_results[j].k)
               /\ ReportThinkingBlock(i).text
                    = resultIn.thinking_results[j].v.content
       /\ resultIn.thinking_results = <<>> =>
            ReportThinkingBlock(i).text = <<"*No output produced.*">>

\* Rendering and reporting leave the maps they are handed as they were.
RenderKeepsInputs ==
  [][(rpc = "normalized" \/ rpc = "rendered") =>
       (thinking_results' = thinking_results
        /\ voting_results' = voting_results
        /\ result' = result)]_vars

\* C24: the thinking phase is rendered as exactly three labelled blocks,
\* one per persona in the order MELCHIOR, BALTHASAR, CASPER whatever the
\* insertion order of the map, each showing its persona's content or the
\* fixed "No output produced." placeholder when the persona has no entry;
\* the input map is not mutated.
C24_ThinkingBlocks ==
  /\ [](AfterRender => ThinkingBlocksOnScreen)
  /\ [](rpc = "done" => ThinkingBlocksInReport)
  /\ RenderKeepsInputs

\* A map inserted CASPER first, MELCHIOR second and without BALTHASAR has
\* been rendered.
C24_Witness ==
  /\ rpc = "done"
  /\ Len(resultIn.thinking_results) = 2
  /\ resultIn.thinking_results[1].k = PersonaKey("CASPER")
  /\ resultIn.thinking_results[2].k = PersonaKey("MELCHIOR")
  /\ screen[2].body = resultIn.thinking_results[2].v.content
  /\ screen[3].body = <<"No output produced.">>
  /\ screen[4].body = resultIn.thinking_results[1].v.content

\* The fragments of round r on screen: its expander, and the block of the
\* i-th persona in it.
RoundExpander(r) == screen[4 * r + 2]
RoundCard(r, i) == screen[4 * r + 2 + i]

\* The key k stands for the persona labelled l: the member, or its value
\* string.
KeyFor(k, l) ==
  \/ k = PersonaKey(l)
  \/ k.t = "str" /\ k.v = PersonaValue(l)

\* The labels a response target may be shown with: a member's label; for
\* any other key its string form, or the label of the member it equals.
LabelsOf(k) ==
  IF k.t = "PersonaType" THEN {<<k.v>>}
  ELSE {<<k.v>>} \cup {<<l>> : l \in {m \in PersonaTypes : KeyFor(k, m)}}

\* The card shows the responses: each as "To <target-label>: <response>",
\* in the order of the response map, with a blank line between them, or
\* the placeholder when the map is empty.
ShowsResponses(card, responses) ==
  IF responses = <<>> THEN card.body = <<"No responses generated.">>
  ELSE \E labels \in [1..Len(responses) ->
                        UNION {LabelsOf(responses[j].k) :
                                 j \in 1..Len(responses)}] :
         /\ \A j \in 1..Len(responses) : labels[j] \in LabelsOf(responses[j].k)
         /\ HtmlUnescape(card.body)
              = Join([j \in 1..Len(responses) |->
                        <<"To ">> \o labels[j] \o <<": ">> \o responses[j].v],
                     <<"\n", "\n">>)

\* C25: a debate round is rendered as exactly three labelled blocks in
\* canonical persona order; a persona with no output gets the fixed
\* "No response produced." placeholder; otherwise its block shows the
\* responses as "To <target-label>: <response>" in the order of the
\* response map joined by blank lines, or the fixed "No responses
\* generated." placeholder when the response map is empty.
C25_DebateRoundBlocks ==
  (AfterRender /\ resultIn.debate_results # <<>>) =>
    /\ screen[4 * Len(resultIn.debate_results) + 6] = SectionTitle("Voting")
    /\ \A r \in 1..Len(resultIn.debate_results) :
         LET outs == resultIn.debate_results[r].outputs
         IN /\ RoundExpander(r).kind = "expander"
            /\ \A i \in 1..Len(CanonicalLabels) :
                 LET card == RoundCard(r, i)
                     l == CanonicalLabels[i]
                     byMember == {j \in 1..Len(outs) : outs[j].k = PersonaKey(l)}
                     byAny == {j \in 1..Len(outs) : KeyFor(outs[j].k, l)}
                 IN /\ card.kind = "persona-card"
                    /\ card.title = <<l>>
                    /\ byAny = {} => card.body = <<"No response produced.">>
                    /\ byMember # {} =>
                         \E j \in byMember :
                           ShowsResponses(card, outs[j].v.responses)
                    /\ \/ card.body = <<"No response produced.">>
                       \/ \E j \in byAny :
                            ShowsResponses(card, outs[j].v.responses)

\* A round in which MELCHIOR answers two personas, one answer holding
\* markup, BALTHASAR answers nobody and CASPER has no output has been
\* rendered.
C25_Witness ==
  /\ rpc = "done"
  /\ Len(resultIn.debate_results) = 2
  /\ Len(resultIn.debate_results[1].outputs[1].v.responses) = 2
  /\ "<" \in Range(resultIn.debate_results[1].outputs[1].v.responses[1].v)
  /\ "\n" \in Range(RoundCard(1, 1).body)
  /\ RoundCard(1, 2).body = <<"No responses generated.">>
  /\ RoundCard(1, 3).body = <<"No response produced.">>
  /\ RoundCard(2, 1).body = <<"No response produced.">>

\* ------------------------------------------ claims: store before notify
KnownPhase(c) == Lower(c.phase) \in {PhThinking, PhDebate, PhVoting}

\* on_chunk is being invoked for chunk c.
BeingNotified(c) == \E e \in Emitters : wpc[e] = "callback" /\ wchunk[e] = c

\* Completed on_chunk invocations for chunks of a known phase.
CompletedKnown ==
  Cardinality({i \in 1..Len(cbSeq) :
                 KnownPhase(cbSeq[i]) /\ ~BeingNotified(cbSeq[i])})

\* Chunks in the history, over its three lists.
HistorySize ==
  Len(chunks[PhThinking]) + Len(chunks[PhDebate]) + Len(chunks[PhVoting])

\* C28: whenever on_chunk is invoked for a chunk of a known phase, that
\* chunk is already the last element of the history list of its phase, and
\* it stays in the history when the callback raises; so the history never
\* holds fewer chunks than there are completed invocations for chunks of a
\* known phase.
C28_StoreBeforeNotify ==
  /\ \A e \in Emitters :
       (wpc[e] = "callback" /\ KnownPhase(wchunk[e])) =>
         LET l == chunks[Lower(wchunk[e].phase)]
         IN l # <<>> /\ l[Len(l)] = wchunk[e]
  /\ \A i \in 1..Len(cbSeq) : KnownPhase(cbSeq[i]) => InHistory(cbSeq[i])
  /\ \A i \in 1..Len(processed) :
       (processed[i].id \in raised /\ KnownPhase(processed[i]))
         => InHistory(processed[i])
  /\ HistorySize >= CompletedKnown

\* on_chunk is being invoked for the second chunk of the debate list, and
\* the invocation for the first one raised.
C28_Witness ==
  /\ Len(chunks[PhDebate]) >= 2
  /\ chunks[PhDebate][1].id \in raised
  /\ BeingNotified(chunks[PhDebate][Len(chunks[PhDebate])])
  /\ CompletedKnown >= 1

\* C29: a chunk whose lower-cased phase is none of thinking, debate,
\* voting is stored in no history list and is still passed to on_chunk; the
\* key set of the history is always exactly those three; and
\* get_chunks_by_phase returns an empty list for any other phase name.
C29_UnknownPhases ==
  /\ DOMAIN chunks = {PhThinking, PhDebate, PhVoting}
  /\ \A i \in 1..Len(processed) :
       ~KnownPhase(processed[i]) =>
         /\ \A p \in DOMAIN chunks : processed[i] \notin Range(chunks[p])
         /\ processed[i] \in Range(cbSeq)
  /\ \A p \in PhaseSpellings :
       Lower(p) \notin {PhThinking, PhDebate, PhVoting}
         => Deref(get_chunks_by_phase(p)) = <<>>
  /\ (ret # NoRef /\ ret.kind = "stored") => ret.key \in DOMAIN chunks

\* A chunk of phase "summary" was processed between two debate chunks, and
\* a query for "summary" has returned.
C29_Witness ==
  /\ Len(processed) >= 3
  /\ KnownPhase(processed[1])
  /\ ~KnownPhase(processed[2])
  /\ KnownPhase(processed[3])
  /\ processed[2] \in Range(cbSeq)
  /\ ret = get_chunks_by_phase(PhSummary)
  /\ HistorySize = 2

\* ------------------------------------------------- claims: the filename
IsDigit(ch) == ch \in Range(DigitChars)

DigitValue(ch) == (CHOOSE i \in 1..Len(DigitChars) : DigitChars[i] = ch) - 1

\* The number a sequence of decimal digits writes.
RECURSIVE DigitsValue(_)
DigitsValue(ds) ==
  IF ds = <<>> THEN 0
  ELSE 10 * DigitsValue(SubSeq(ds, 1, Len(ds) - 1)) + DigitValue(ds[Len(ds)])

\* name is "magi-report-<YYYYMMDD>-<HHMMSS>.md" for the timestamp ts: a
\* prefix, eight digits, a hyphen, six digits and the suffix, the digit
\* fields being the timestamp's fields.
NamesTimestamp(name, ts) ==
  /\ Len(name) = 17
  /\ name[1] = "magi-report-"
  /\ name[10] = "-"
  /\ name[17] = ".md"
  /\ \A i \in (2..9) \cup (11..16) : IsDigit(name[i])
  /\ DigitsValue(SubSeq(name, 2, 5)) = ts.year
  /\ DigitsValue(SubSeq(name, 6, 7)) = ts.month
  /\ DigitsValue(SubSeq(name, 8, 9)) = ts.day
  /\ DigitsValue(SubSeq(name, 11, 12)) = ts.hour
  /\ DigitsValue(SubSeq(name, 13, 14)) = ts.minute
  /\ DigitsValue(SubSeq(name, 15, 16)) = ts.second

\* The timestamp 2026-01-08 15:58:00 and the name the specification gives
\* for it.
ExampleTimestamp ==
  [year |-> 2026, month |-> 1, day |-> 8,
   hour |-> 15, minute |-> 58, second |-> 0]

ExampleName ==
  <<"magi-report-", "2", "0", "2", "6", "0", "1", "0", "8", "-",
    "1", "5", "5", "8", "0", "0", ".md">>

C23_ErrorMessage ==
  shown # <<>> =>
    /\ (exc.kind = "MagiException" /\ ~exc.error.isNone
        /\ exc.error.code.has /\ exc.error.message.has)
         => shown = exc.error.code.v \o <<": ">> \o exc.error.message.v
    /\ (exc.kind = "MagiException" /\ exc.error.isNone)
         => shown = <<"Magi error: ">> \o exc.text
    /\ (exc.kind = "Exception" /\ raisedIn = "config")
         => shown = <<"Configuration error: ">> \o exc.text
    /\ (exc.kind = "Exception" /\ raisedIn = "engine")
         => shown = <<"Engine initialization error: ">> \o exc.text
    /\ (exc.kind = "Exception" /\ raisedIn = "execute")
         => shown = <<"Unexpected error: ">> \o exc.text

\* The message of a MagiException with a code and a message, whose own
\* text is another one, has been shown for the execution.
C23_Witness ==
  /\ shown # <<>>
  /\ raisedIn = "execute"
  /\ exc.kind = "MagiException"
  /\ ~exc.error.isNone
  /\ exc.error.code = Attr(<<"E", "1">>)
  /\ exc.error.message = Attr(<<"m">>)
  /\ exc.text = <<"a">>
  /\ shown = <<"E", "1", ": ", "m">>

====
